---- MODULE Spec2Model ----
(***************************************************************************)
(* A state-machine model of sqlite_fdw:                                    *)
(*   - the shippability cache of src/src/shippable.c,                      *)
(*   - the predicate classifier and the scan lifecycle of                  *)
(*     src/src/sqlite_fdw.c.                                               *)
(* Each component has its own next-state relation over the shared state.   *)
(***************************************************************************)
EXTENDS Integers, Sequences, FiniteSets, TLC

VARIABLES
    ShippableCacheHash, \* shippable.c:42  [allocated, entries: key -> BOOLEAN]
    srvExts,            \* the backend's view of each server's extensions option
    shipCall,           \* the is_shippable call in progress / last finished, with
                        \* ghost counts of what it did (servedFor: the server
                        \* whose call created the entry a hit returned;
                        \* flushedDuring: the callback ran during its lookup)
    shipEv,             \* the last step taken by the shippability component
    cachedFor,          \* ghost: server on whose behalf an entry was created
    lookups,            \* ghost: lookup_shippable returns per key since the last flush
    flushed,            \* ghost: keys removed by a flush and not looked up since
    sqlite,             \* the embedded engine: open connections, live statements
                        \* with their cursors, and the API misuses seen since the
                        \* host started the current statement
    baserel,            \* RelOptInfo of the foreign table: rows, tuples, fdw_private
    planIn,             \* ghost: what is_foreign_expr answered at sizing (sizeSafe),
                        \* the scan clauses given at plan time, the clauses
                        \* is_foreign_expr was asked about then (planTested) and
                        \* those it called safe (planSafe); retested: clauses
                        \* sizing put in local_conds that it would call safe now
    plan,               \* the ForeignScan node built by sqliteGetForeignPlan
    planPc,             \* "none", "rel", "sized", "planned" or "error"
    festate,            \* node->fdw_state: the SQLiteFdwExecutionState of the scan
    scanPc,             \* "idle", "began", "ended" or "error"
    scanLog             \* ghost: the bind calls issued by the last begin, the
                        \* error it raised, whether the plan's query text was
                        \* freed, the last two callbacks, the outcome of the last
                        \* iterate and the release calls of the last teardown
    ,
    modify              \* the data-modification statement in progress: its
                        \* operation, the position in the callback sequence, the
                        \* private data of the plan, and the slots given to and
                        \* returned by the per-row callbacks
    ,
    typ                 \* the last call of sqliteTranslateType: the type name
                        \* given and the text appended to the statement
    ,
    imp                 \* the last IMPORT FOREIGN SCHEMA: the statement given,
                        \* the flags parsed, the handles held, the commands
                        \* returned or the error raised, and as ghosts the
                        \* tables the enumeration yielded and the column
                        \* statements prepared
    ,
    allow               \* the last call of is_shippable_agg, is_shippable_func
                        \* or is_shippable_op: the function asked about and the
                        \* answer

shipVars == <<ShippableCacheHash, srvExts, shipCall, shipEv, cachedFor, lookups, flushed>>

engVars == <<sqlite>>
planVars == <<baserel, planIn, plan, planPc>>

scanVars == <<festate, scanPc, scanLog>>

modVars == <<modify>>
\* the state of the callbacks outside planning and scanning
typVars == <<typ>>
impVars == <<imp>>
allowVars == <<allow>>
hookVars == <<modVars, typVars, impVars, allowVars>>

vars == <<shipVars, engVars, planVars, scanVars, hookVars>>

----------------------------------------------------------------------------
(* Shippability cache: src/src/shippable.c                                 *)

\* access/transam.h value used by is_builtin
FirstBootstrapObjectId == 10000
InvalidOid == 0
\* catalog OIDs of pg_proc and pg_operator
ProcedureRelationId == 1255
OperatorRelationId == 2617
\* cap of the ghost lookup counter
LookupCap == 2

\* a user-defined object and two user extensions
UserObject == FirstBootstrapObjectId + 1
ExtA == FirstBootstrapObjectId + 2
ExtB == FirstBootstrapObjectId + 3

Extensions == {ExtA, ExtB}
Servers == {"srvA", "srvB"}
\* (classId, objectId) pairs callers ask about: a built-in function, the first
\* non-built-in OID (member of no extension), and one user OID that names a
\* function of ExtA in pg_proc and an operator of ExtB in pg_operator.
Objects == { <<ProcedureRelationId, FirstBootstrapObjectId - 1>>,
             <<ProcedureRelationId, FirstBootstrapObjectId>>,
             <<ProcedureRelationId, UserObject>>,
             <<OperatorRelationId, UserObject>> }

\* getExtensionOfObject(classId, objectId): the catalog's extension membership
getExtensionOfObject(classId, objectId) ==
    IF objectId = UserObject
    THEN (IF classId = ProcedureRelationId THEN ExtA ELSE ExtB)
    ELSE InvalidOid

OidIsValid(oid) == oid # InvalidOid

NIL == {}

\* the relation info a caller planning for server srv passes in
FpInfo(srv) == [serverid |-> srv, shippable_extensions |-> srvExts[srv]]

EmptyEntries == [k \in {} |-> FALSE]

is_builtin_off_by_one(objectId) == objectId < FirstBootstrapObjectId - 1
is_builtin(objectId) == objectId < FirstBootstrapObjectId

NoShippableExtensions_skipped(fpinfo) == FALSE
NoShippableExtensions(fpinfo) == fpinfo.shippable_extensions = NIL

\* lines 188-191: the hash key is_shippable builds
CacheKey(objectId, classId, fpinfo) ==
    [objid |-> objectId, classid |-> classId, serverid |-> 0]

lookup_shippable(objectId, classId, fpinfo) ==
    LET extensionOid == getExtensionOfObject(classId, objectId)
    IN  OidIsValid(extensionOid) /\ extensionOid \in fpinfo.shippable_extensions

HashFind_always_miss(entries, key) == FALSE
\* hash_search(..., HASH_FIND, ...): TRUE iff an entry with this key exists
HashFind(entries, key) == key \in DOMAIN entries

\* hash_search(..., HASH_ENTER, ...) followed by entry->shippable = shippable
HashEnter(entries, key, shippable) ==
    [k \in DOMAIN entries \cup {key} |-> IF k = key THEN shippable ELSE entries[k]]

FlushEntries_selective(entries) ==
    [k \in {x \in DOMAIN entries : x.classid # ProcedureRelationId} |-> entries[k]]
\* the entries left by the removal loop of the invalidation callback
FlushEntries(entries) == [k \in {} |-> FALSE]

\* a miss that creates the entry at once, its decision not yet computed
EntriesOnMiss_enter_first(entries, key) == HashEnter(entries, key, FALSE)
\* the cache after hash_search(..., HASH_FIND, ...) found nothing (lines
\* 193-203): no entry is made before lookup_shippable has returned
EntriesOnMiss(entries, key) == entries

InitShip ==
    /\ ShippableCacheHash = [allocated |-> FALSE, entries |-> EmptyEntries]
    /\ srvExts = [srv \in Servers |-> IF srv = "srvA" THEN {ExtA} ELSE {ExtB}]
    /\ shipCall = [pc |-> "idle", objectId |-> 0, classId |-> 0,
                   fpinfo |-> [serverid |-> "srvA", shippable_extensions |-> NIL],
                   result |-> FALSE, hit |-> FALSE, finds |-> 0, enters |-> 0,
                   inits |-> 0, listRead |-> FALSE, lookedUp |-> FALSE,
                   wasFlushed |-> FALSE, servedFor |-> "srvA",
                   flushedDuring |-> FALSE]
    /\ shipEv = "init"
    /\ cachedFor = EmptyEntries
    /\ lookups = EmptyEntries
    /\ flushed = {}

\* is_shippable up to its return or, on a cache miss, up to the call of
\* lookup_shippable (whose catalog access may run the invalidation callback)
is_shippable(objectId, classId, srv) ==
    LET fpinfo == FpInfo(srv)
        key == CacheKey(objectId, classId, fpinfo)
        base == [pc |-> "done", objectId |-> objectId, classId |-> classId,
                 fpinfo |-> fpinfo, result |-> FALSE, hit |-> FALSE, finds |-> 0,
                 enters |-> 0, inits |-> 0, listRead |-> FALSE, lookedUp |-> FALSE,
                 wasFlushed |-> FALSE, servedFor |-> srv, flushedDuring |-> FALSE]
    IN
    /\ shipCall.pc # "lookup"
    /\ shipEv' = "is_shippable"
    /\ UNCHANGED <<srvExts, cachedFor, lookups>>
    /\ IF is_builtin(objectId)
       THEN /\ shipCall' = [base EXCEPT !.result = TRUE]
            /\ UNCHANGED <<ShippableCacheHash, flushed>>
       ELSE IF NoShippableExtensions(fpinfo)
       THEN /\ shipCall' = [base EXCEPT !.result = FALSE, !.listRead = TRUE]
            /\ UNCHANGED <<ShippableCacheHash, flushed>>
       ELSE LET init == ~ShippableCacheHash.allocated
                entries == ShippableCacheHash.entries
                seen == [base EXCEPT !.listRead = TRUE, !.finds = 1,
                                     !.inits = IF init THEN 1 ELSE 0,
                                     !.wasFlushed = key \in flushed]
            IN /\ ShippableCacheHash' =
                     [allocated |-> TRUE,
                      entries |-> IF HashFind(entries, key) THEN entries
                                  ELSE EntriesOnMiss(entries, key)]
               /\ UNCHANGED flushed
               /\ IF HashFind(entries, key)
                  THEN shipCall' = [seen EXCEPT !.hit = TRUE, !.result = entries[key],
                                               !.servedFor = cachedFor[key]]
                  ELSE shipCall' = [seen EXCEPT !.pc = "lookup"]

\* the rest of is_shippable on a miss: lookup_shippable returns, the entry is
\* created holding the result (lines 203-219)
FinishLookup ==
    /\ shipCall.pc = "lookup"
    /\ LET c == shipCall
           key == CacheKey(c.objectId, c.classId, c.fpinfo)
           shippable == lookup_shippable(c.objectId, c.classId, c.fpinfo)
           n == IF key \in DOMAIN lookups THEN lookups[key] ELSE 0
       IN /\ ShippableCacheHash' = [ShippableCacheHash EXCEPT
                 !.entries = HashEnter(ShippableCacheHash.entries, key, shippable)]
          /\ shipCall' = [c EXCEPT !.pc = "done", !.result = shippable,
                                   !.enters = 1, !.lookedUp = TRUE]
          /\ cachedFor' = HashEnter(cachedFor, key, c.fpinfo.serverid)
          /\ lookups' = HashEnter(lookups, key, IF n < LookupCap THEN n + 1 ELSE n)
          /\ flushed' = flushed \ {key}
    /\ shipEv' = "lookup_shippable"
    /\ UNCHANGED srvExts

\* the effect of the callback's removal loop on the cache and its ghosts
RunInvalidation ==
    /\ ShippableCacheHash' = [ShippableCacheHash EXCEPT
           !.entries = FlushEntries(ShippableCacheHash.entries)]
    /\ flushed' = flushed \cup DOMAIN ShippableCacheHash.entries
    /\ cachedFor' = [k \in DOMAIN ShippableCacheHash'.entries |-> cachedFor[k]]
    /\ lookups' = [k \in DOMAIN ShippableCacheHash'.entries |-> lookups[k]]
    /\ shipCall' = [shipCall EXCEPT !.flushedDuring = @ \/ shipCall.pc = "lookup"]
    /\ shipEv' = "invalidate"

\* InvalidateShippableCacheCallback fired by a pg_foreign_server change that
\* leaves the extensions options as they are; it is registered by
\* InitializeShippableCache, so it runs only once the cache exists
InvalidateShippableCacheCallback ==
    /\ ShippableCacheHash.allocated
    /\ RunInvalidation
    /\ UNCHANGED srvExts

\* ALTER SERVER ... OPTIONS (extensions ...): the option changes and the
\* callback runs if it was registered (lines 110-113)
AlterServer(srv, exts) ==
    /\ srvExts[srv] # exts
    /\ srvExts' = [srvExts EXCEPT ![srv] = exts]
    /\ IF ShippableCacheHash.allocated
       THEN RunInvalidation
       ELSE /\ UNCHANGED <<ShippableCacheHash, flushed, cachedFor, lookups, shipCall>>
            /\ shipEv' = "alter"

NextShip ==
    \/ \E o \in Objects, srv \in Servers :
          is_shippable(o[2], o[1], srv) /\ UNCHANGED <<hookVars, engVars, planVars, scanVars>>
    \/ FinishLookup /\ UNCHANGED <<hookVars, engVars, planVars, scanVars>>
    \/ InvalidateShippableCacheCallback /\ UNCHANGED <<hookVars, engVars, planVars, scanVars>>
    \/ \E srv \in Servers, exts \in SUBSET Extensions :
          AlterServer(srv, exts) /\ UNCHANGED <<hookVars, engVars, planVars, scanVars>>

----------------------------------------------------------------------------
(* The embedded engine as the code uses it: connection and statement       *)
(* handles.  Handle 0 is NULL.  A handle value is reused only when no      *)
(* connection or statement with that value is still open.                  *)

\* number of connection handles and of statement handles the engine can hold
MaxConns == 2
MaxStmts == 3
\* most rows a scan reads from one result set
MaxRows == 2

\* sqlite3 result codes
SQLITE_OK == 0
\* any status other than SQLITE_OK
SQLITE_ERROR == SQLITE_OK + 1
SQLITE_ROW == 100
SQLITE_DONE == SQLITE_ROW + 1
\* the status of a call the engine rejects as out of sequence
SQLITE_MISUSE == SQLITE_ERROR + 20

NULL == 0
ConnIds == 1..MaxConns
StmtIds == 1..MaxStmts

\* a statement that was just prepared: no row fetched yet
FreshCursor == [pos |-> 0, state |-> "ready"]

InitEngine ==
    sqlite = [open |-> {}, stmts |-> [x \in {} |-> 0],
              cursor |-> [x \in {} |-> FreshCursor], misuse |-> {}]

LiveStmts(eng) == DOMAIN eng.stmts
StmtsOf(eng, db) == {x \in DOMAIN eng.stmts : eng.stmts[x] = db}
FreeConns(eng) == ConnIds \ eng.open
FreeStmts(eng) == StmtIds \ LiveStmts(eng)
Misuse(eng, tag) == [eng EXCEPT !.misuse = @ \cup {tag}]

\* sqlite3_open: rc SQLITE_OK gives an open connection; a failure other than
\* out-of-memory also returns a handle, which stays allocated until it is
\* passed to sqlite3_close; out of memory returns NULL.
\* how is "ok", "cantopen" or "nomem"; the result is [eng, rc, db].
sqlite3_open(eng, how) ==
    IF how = "nomem" \/ FreeConns(eng) = {}
    THEN [eng |-> eng, rc |-> SQLITE_ERROR, db |-> NULL]
    ELSE LET db == CHOOSE x \in FreeConns(eng) : \A y \in FreeConns(eng) : x <= y
         IN [eng |-> [eng EXCEPT !.open = @ \cup {db}],
             rc |-> IF how = "ok" THEN SQLITE_OK ELSE SQLITE_ERROR,
             db |-> db]

\* sqlite3_prepare_v2 on connection db; ok tells whether the text compiles
sqlite3_prepare_v2(eng, db, ok) ==
    IF db \notin eng.open
    THEN [eng |-> Misuse(eng, "prepare on closed connection"),
          rc |-> SQLITE_ERROR, stmt |-> NULL]
    ELSE IF ~ok \/ FreeStmts(eng) = {}
    THEN [eng |-> eng, rc |-> SQLITE_ERROR, stmt |-> NULL]
    ELSE LET st == CHOOSE x \in FreeStmts(eng) : \A y \in FreeStmts(eng) : x <= y
         IN [eng |-> [eng EXCEPT !.stmts = [x \in DOMAIN @ \cup {st} |->
                                               IF x = st THEN db ELSE @[x]],
                                  !.cursor = [x \in DOMAIN @ \cup {st} |->
                                               IF x = st THEN FreshCursor ELSE @[x]]],
             rc |-> SQLITE_OK, stmt |-> st]

\* sqlite3_finalize: NULL is a harmless no-op, a dead handle is a misuse
sqlite3_finalize(eng, stmt) ==
    IF stmt = NULL THEN eng
    ELSE IF stmt \notin LiveStmts(eng)
    THEN Misuse(eng, "finalize of finalized statement")
    ELSE [eng EXCEPT !.stmts = [x \in DOMAIN @ \ {stmt} |-> @[x]],
                     !.cursor = [x \in DOMAIN @ \ {stmt} |-> @[x]]]

\* sqlite3_close: NULL is a harmless no-op; with unfinalized statements the
\* call fails with SQLITE_BUSY and the connection stays open; a handle that
\* was already closed is a misuse
sqlite3_close(eng, db) ==
    IF db = NULL THEN eng
    ELSE IF db \notin eng.open
    THEN Misuse(eng, "close of closed connection")
    ELSE IF StmtsOf(eng, db) # {}
    THEN Misuse(eng, "close with unfinalized statement")
    ELSE [eng EXCEPT !.open = @ \ {db}]

\* sqlite3_errmsg(db): reading the message of a closed connection is a misuse
sqlite3_errmsg(eng, db) ==
    IF db # NULL /\ db \notin eng.open
    THEN Misuse(eng, "errmsg of closed connection")
    ELSE eng

\* sqlite3_step on a statement made by sqlite3_prepare_v2.  more tells
\* whether the result set has a row after the current one, fails whether the
\* engine hits an error while running.  A statement that already returned
\* SQLITE_DONE or an error is halted: a build with automatic reset runs it
\* again from its first row, a build without rejects the call (autoreset).
\* The result is [eng, rc, row]; row is the number of the row now current.
sqlite3_step(eng, stmt, more, fails, autoreset) ==
    IF stmt \notin LiveStmts(eng)
    THEN [eng |-> Misuse(eng, "step of finalized statement"),
          rc |-> SQLITE_MISUSE, row |-> 0]
    ELSE LET c == eng.cursor[stmt]
             halted == c.state \in {"done", "failed"}
             pos == IF halted THEN 0 ELSE c.pos
         IN IF halted /\ ~autoreset
            THEN [eng |-> eng, rc |-> SQLITE_MISUSE, row |-> 0]
            ELSE IF fails
            THEN [eng |-> [eng EXCEPT !.cursor[stmt] = [pos |-> pos, state |-> "failed"]],
                  rc |-> SQLITE_ERROR, row |-> 0]
            ELSE IF more
            THEN [eng |-> [eng EXCEPT !.cursor[stmt] = [pos |-> pos + 1, state |-> "row"]],
                  rc |-> SQLITE_ROW, row |-> pos + 1]
            ELSE [eng |-> [eng EXCEPT !.cursor[stmt] = [pos |-> pos, state |-> "done"]],
                  rc |-> SQLITE_DONE, row |-> 0]

\* sqliteOpen (sqlite_fdw.c:388-399): [eng, ok, db]; ok = FALSE means that
\* ereport(ERROR) was raised
sqliteOpen(eng, how) ==
    LET r == sqlite3_open(eng, how)
    IN [eng |-> r.eng, ok |-> r.rc = SQLITE_OK, db |-> r.db]

\* sqlitePrepare (sqlite_fdw.c:405-424): on failure the connection is closed,
\* then its message is read for the error report
sqlitePrepare(eng, db, compiles) ==
    LET r == sqlite3_prepare_v2(eng, db, compiles)
    IN IF r.rc # SQLITE_OK
       THEN [eng |-> sqlite3_errmsg(sqlite3_close(r.eng, db), db),
             ok |-> FALSE, stmt |-> NULL]
       ELSE [eng |-> r.eng, ok |-> TRUE, stmt |-> r.stmt]

----------------------------------------------------------------------------
(* Planning: sqliteGetForeignRelSize, GetEstimatedRows, sqliteGetForeignPlan*)

\* longest clause list the planner is given
MaxClauses == 2

\* Columns of the foreign table (id, name, price) by attribute number.
\* Attribute sets stand for the Bitmapsets built by pull_varattnos.
Attrs == {1, 2, 3}
\* RestrictInfo nodes the planner may hand over, compared by identity:
\*   "true"      a pseudoconstant clause, no column
\*   "name_in"   name NOT IN ($1)   (columns {2}, one text parameter)
\*   "price_gt"  price > $1 + id    (columns {1, 3}, one int4 parameter)
Clauses == {"true", "name_in", "price_gt"}
\* a further clause, planned only for scans:
\*   "id_between"  id BETWEEN $1 AND $2  (column {1}, an int2 and an int8
\*                 parameter)
ClauseAttrs(c) ==
    CASE c = "name_in" -> {2}
      [] c = "price_gt" -> {1, 3}
      [] c = "id_between" -> {1}
      [] OTHER -> {}
Pseudoconstant(c) == c = "true"
\* declared types of the runtime parameters a clause carries
ClauseParams(c) ==
    CASE c = "name_in" -> <<"TEXTOID">>
      [] c = "price_gt" -> <<"INT4OID">>
      [] c = "id_between" -> <<"INT2OID", "INT8OID">>
      [] OTHER -> <<>>

Range(seq) == {seq[i] : i \in DOMAIN seq}
Count(seq, x) == Cardinality({i \in DOMAIN seq : seq[i] = x})
\* the lists of at most n distinct elements of S
DistinctSeqs(S, n) ==
    {q \in UNION {[1..k -> S] : k \in 0..n} :
        \A i, j \in DOMAIN q : i # j => q[i] # q[j]}
RECURSIVE Flatten(_)
Flatten(seqs) == IF seqs = <<>> THEN <<>> ELSE Head(seqs) \o Flatten(Tail(seqs))

\* pull_varattnos over a list of clauses, added to attrs
PullVarattnos(attrs, conds) == attrs \cup UNION {ClauseAttrs(c) : c \in Range(conds)}

LocalAttrs_of_remote(attrs, local_conds, remote_conds) == PullVarattnos(attrs, remote_conds)
\* a sizing that fetches the columns of the target list only
LocalAttrs_reltarget_only(attrs, local_conds, remote_conds) == attrs
\* the attributes sizing adds to attrs_used on account of the classified
\* lists (sqlite_fdw.c:532-537)
LocalAttrs(attrs, local_conds, remote_conds) == PullVarattnos(attrs, local_conds)

RECURSIVE ClassifyConds_unsafe_in_both(_, _, _)
ClassifyConds_unsafe_in_both(conds, safe, acc) ==
    IF conds = <<>> THEN acc
    ELSE LET ri == Head(conds)
         IN ClassifyConds_unsafe_in_both(Tail(conds), safe,
               IF ri \in safe
               THEN [acc EXCEPT !.remote_conds = Append(@, ri)]
               ELSE [acc EXCEPT !.local_conds = Append(@, ri),
                                !.remote_conds = Append(@, ri)])
\* one pass of the classification loop (sqlite_fdw.c:522-530); safe is the
\* set of clauses for which is_foreign_expr returns true
RECURSIVE ClassifyConds(_, _, _)
ClassifyConds(conds, safe, acc) ==
    IF conds = <<>> THEN acc
    ELSE LET ri == Head(conds)
         IN ClassifyConds(Tail(conds), safe,
               IF ri \in safe
               THEN [acc EXCEPT !.remote_conds = Append(@, ri)]
               ELSE [acc EXCEPT !.local_conds = Append(@, ri)])

\* sqlite_deparse_select: the columns of attrs_used in attribute order
RECURSIVE AttrList(_, _)
AttrList(attrs, from) ==
    IF from > 3 THEN <<>>
    ELSE (IF from \in attrs THEN <<from>> ELSE <<>>) \o AttrList(attrs, from + 1)
\* the query text, as what it selects and filters
DeparseSelect(attrs_used, table, remote_conds, forUpdate) ==
    [table |-> table, columns |-> AttrList(attrs_used, 1),
     where |-> remote_conds, forUpdate |-> forUpdate]
\* sqlite_append_where_clause: the parameters of the conditions, in order
ParamsList(remote_conds) ==
    Flatten([i \in DOMAIN remote_conds |-> ClauseParams(remote_conds[i])])

NoQuery == DeparseSelect({}, "", <<>>, FALSE)
NoFpinfo == [remote_conds |-> <<>>, local_conds |-> <<>>, attrs_used |-> {}]
NoPlan == [local_exprs |-> <<>>, remote_exprs |-> <<>>, remote_conds |-> <<>>,
           fdw_exprs |-> <<>>,
           fdw_private |-> [query |-> NoQuery, retrieved_attrs |-> <<>>]]

\* What the estimate of GetEstimatedRows did: the handles it was given by
\* the engine, the status and value of the scan-status call (stat), and the
\* exit it took: "none", "open", "prepare", "scanstatus" or "return"
NoProbe == [db |-> NULL, stmt |-> NULL,
            stat |-> [rc |-> SQLITE_OK, estimate |-> 0], exit |-> "none"]
\* What the planner callbacks were given, and what they asked and probed
NoPlanIn == [sizeSafe |-> {}, scan_clauses |-> <<>>, planTested |-> <<>>,
             planSafe |-> {}, retested |-> {}, probe |-> NoProbe]

InitPlan ==
    /\ baserel = [baserestrictinfo |-> <<>>, reltarget |-> {},
                  rows |-> 0, tuples |-> 0, fdw_private |-> NoFpinfo]
    /\ planIn = NoPlanIn
    /\ plan = NoPlan
    /\ planPc = "none"

\* The host planner builds the RelOptInfo of a new query on the foreign
\* table: its restriction clauses and the columns of its target list.
NewBaseRel(baserestrictinfo, reltarget) ==
    /\ baserel' = [baserestrictinfo |-> baserestrictinfo, reltarget |-> reltarget,
                   rows |-> 0, tuples |-> 0, fdw_private |-> NoFpinfo]
    /\ planIn' = NoPlanIn
    /\ plan' = NoPlan
    /\ planPc' = "rel"

\* an estimate that rounds to the nearest integer instead of truncating
GetEstimatedRows_rounded(eng, how, compiles, stat) ==
    LET o == sqliteOpen(eng, how)
        p == sqlitePrepare(o.eng, o.db, compiles)
        e == sqlite3_close(sqlite3_finalize(p.eng, p.stmt), o.db)
        probe == [NoProbe EXCEPT !.db = o.db]
        called == [probe EXCEPT !.stmt = p.stmt, !.stat = stat]
    IN IF ~o.ok
       THEN [eng |-> o.eng, ok |-> FALSE, rows |-> 0,
             probe |-> [probe EXCEPT !.exit = "open"]]
       ELSE IF ~p.ok
       THEN [eng |-> p.eng, ok |-> FALSE, rows |-> 0,
             probe |-> [probe EXCEPT !.exit = "prepare"]]
       ELSE IF stat.rc # SQLITE_OK
       THEN [eng |-> e, ok |-> FALSE, rows |-> 0,
             probe |-> [called EXCEPT !.exit = "scanstatus"]]
       ELSE [eng |-> e, ok |-> TRUE, rows |-> (stat.estimate + 5) \div 10,
             probe |-> [called EXCEPT !.exit = "return"]]

\* GetEstimatedRows (sqlite_fdw.c:557-586).  how: outcome of sqlite3_open;
\* compiles: whether the query prepares; stat: the status of
\* sqlite3_stmt_scanstatus and the estimate in tenths of a row.
\* Result [eng, ok, rows, probe]; ok = FALSE means that ereport(ERROR) was
\* raised; (int) estimate truncates.
GetEstimatedRows(eng, how, compiles, stat) ==
    LET o == sqliteOpen(eng, how)
        p == sqlitePrepare(o.eng, o.db, compiles)
        probe == [NoProbe EXCEPT !.db = o.db]
    IN IF ~o.ok
       THEN [eng |-> o.eng, ok |-> FALSE, rows |-> 0,
             probe |-> [probe EXCEPT !.exit = "open"]]
       ELSE IF ~p.ok
       THEN [eng |-> p.eng, ok |-> FALSE, rows |-> 0,
             probe |-> [probe EXCEPT !.exit = "prepare"]]
       ELSE LET e == sqlite3_close(sqlite3_finalize(p.eng, p.stmt), o.db)
                called == [probe EXCEPT !.stmt = p.stmt, !.stat = stat]
            IN IF stat.rc # SQLITE_OK
               THEN [eng |-> e, ok |-> FALSE, rows |-> 0,
                     probe |-> [called EXCEPT !.exit = "scanstatus"]]
               ELSE [eng |-> e, ok |-> TRUE, rows |-> stat.estimate \div 10,
                     probe |-> [called EXCEPT !.exit = "return"]]

\* outcomes of the engine calls of one estimate
EstimateOutcomes ==
    LET good == [rc |-> SQLITE_OK, estimate |-> 25]
    IN {<<"ok", TRUE, good>>, <<"ok", TRUE, [good EXCEPT !.estimate = 39]>>,
        <<"ok", TRUE, [rc |-> SQLITE_ERROR, estimate |-> 25]>>,
        <<"ok", FALSE, good>>, <<"cantopen", TRUE, good>>}

\* sqliteGetForeignRelSize (sqlite_fdw.c:499-549); safe: the clauses for
\* which is_foreign_expr returns true; est: the outcomes of the estimate
sqliteGetForeignRelSize(safe, est) ==
    /\ planPc = "rel"
    /\ LET cls == ClassifyConds(baserel.baserestrictinfo, safe, NoFpinfo)
           attrs == LocalAttrs(baserel.reltarget, cls.local_conds, cls.remote_conds)
           fpinfo == [cls EXCEPT !.attrs_used = attrs]
           r == GetEstimatedRows(sqlite, est[1], est[2], est[3])
       IN /\ planIn' = [planIn EXCEPT !.sizeSafe = safe, !.probe = r.probe]
          /\ sqlite' = r.eng
          /\ IF r.ok
             THEN /\ baserel' = [baserel EXCEPT !.rows = r.rows, !.tuples = r.rows,
                                                !.fdw_private = fpinfo]
                  /\ planPc' = "sized"
             ELSE /\ baserel' = [baserel EXCEPT !.rows = 0, !.fdw_private = fpinfo]
                  /\ planPc' = "error"
    /\ UNCHANGED plan

NeedsSafetyTest_always(rinfo, fpinfo) == TRUE
\* whether sqliteGetForeignPlan asks is_foreign_expr about a scan clause that
\* is not a pseudoconstant (sqlite_fdw.c:671-678)
NeedsSafetyTest(rinfo, fpinfo) ==
    /\ rinfo \notin Range(fpinfo.remote_conds)
    /\ rinfo \notin Range(fpinfo.local_conds)

\* the loop over scan_clauses (sqlite_fdw.c:661-685); acc collects
\* remote_conds, remote_exprs, local_exprs and the clauses is_foreign_expr
\* was asked about
RECURSIVE SeparateScanClauses(_, _, _, _)
SeparateScanClauses(scan_clauses, fpinfo, safe, acc) ==
    IF scan_clauses = <<>> THEN acc
    ELSE LET rinfo == Head(scan_clauses)
             rest == Tail(scan_clauses)
             remote == [acc EXCEPT !.remote_conds = Append(@, rinfo),
                                   !.remote_exprs = Append(@, rinfo)]
             local == [acc EXCEPT !.local_exprs = Append(@, rinfo)]
         IN IF Pseudoconstant(rinfo)
            THEN SeparateScanClauses(rest, fpinfo, safe, acc)
            ELSE IF ~NeedsSafetyTest(rinfo, fpinfo)
            THEN SeparateScanClauses(rest, fpinfo, safe,
                    IF rinfo \in Range(fpinfo.remote_conds) THEN remote ELSE local)
            ELSE SeparateScanClauses(rest, fpinfo, safe,
                    IF rinfo \in safe
                    THEN [remote EXCEPT !.tested = Append(@, rinfo)]
                    ELSE [local EXCEPT !.tested = Append(@, rinfo)])

\* sqliteGetForeignPlan (sqlite_fdw.c:615-722); scan_clauses: the
\* restriction clauses followed by the join clauses of the chosen path
sqliteGetForeignPlan(scan_clauses, safe, forUpdate) ==
    /\ planPc = "sized"
    /\ LET fpinfo == baserel.fdw_private
           sep == SeparateScanClauses(scan_clauses, fpinfo, safe,
                     [remote_conds |-> <<>>, remote_exprs |-> <<>>,
                      local_exprs |-> <<>>, tested |-> <<>>])
           sql == DeparseSelect(fpinfo.attrs_used, "t", sep.remote_conds, forUpdate)
       IN /\ plan' = [local_exprs |-> sep.local_exprs,
                      remote_exprs |-> sep.remote_exprs,
                      remote_conds |-> sep.remote_conds,
                      fdw_exprs |-> ParamsList(sep.remote_conds),
                      fdw_private |-> [query |-> sql, retrieved_attrs |-> sql.columns]]
          /\ planIn' = [planIn EXCEPT !.scan_clauses = scan_clauses,
                                      !.planTested = sep.tested,
                                      !.planSafe = safe \cap Range(sep.tested),
                                      !.retested = {c \in Range(fpinfo.local_conds)
                                                         \cap Range(scan_clauses) :
                                                      c \in safe /\ ~Pseudoconstant(c)}]
    /\ planPc' = "planned"
    /\ UNCHANGED <<baserel, sqlite>>

\* the target lists planned: reltarget holds the columns the query outputs
\* and the columns of this relation its join clauses reference
TlistChoices == {{}, {1}, {2}, {1, 3}}
\* The join clauses a path may add to the scan clauses of a relation: the
\* host puts the columns a join clause references into reltarget when it
\* distributes the clause, before the relation is sized.
JoinClauses(rel) ==
    {c \in Clauses \ Range(rel.baserestrictinfo) : ClauseAttrs(c) \subseteq rel.reltarget}
\* most join clauses a path adds to the scan clauses
MaxJoinClauses == 1

NextPlan ==
    \/ \E bri \in DistinctSeqs(Clauses, MaxClauses), tlist \in TlistChoices :
            NewBaseRel(bri, tlist) /\ UNCHANGED <<hookVars, shipVars, engVars, scanVars>>
    \/ \E safe \in SUBSET Range(baserel.baserestrictinfo), est \in EstimateOutcomes :
            sqliteGetForeignRelSize(safe, est) /\ UNCHANGED <<hookVars, shipVars, scanVars>>
    \/ \E joins \in DistinctSeqs(JoinClauses(baserel), MaxJoinClauses),
          forUpdate \in BOOLEAN :
         \E safe \in SUBSET Range(baserel.baserestrictinfo \o joins) :
            /\ sqliteGetForeignPlan(baserel.baserestrictinfo \o joins, safe, forUpdate)
            /\ UNCHANGED <<hookVars, shipVars, scanVars>>

----------------------------------------------------------------------------
(* Scan execution: sqliteBeginForeignScan, sqlite_bind_param_values,       *)
(* sqlite_bind_param_value, sqliteIterateForeignScan,                      *)
(* sqliteReScanForeignScan, sqliteEndForeignScan, cleanup_                 *)

\* palloc0(sizeof(SQLiteFdwExecutionState))
ZeroFestate == [alloc |-> TRUE, db |-> NULL, stmt |-> NULL, query |-> FALSE,
                retrieved_attrs |-> <<>>]
NoFestate == [ZeroFestate EXCEPT !.alloc = FALSE]
\* What the host saw of the scan callbacks:
\*   binds       the calls of sqlite_bind_param_value made by the last begin
\*   err         the error the last begin or end raised ("fault": the
\*               backend faulted)
\*   op, prev    the last callback that ran and the one before it
\*   steps, rc   number of sqlite3_step calls of the last iterate and the
\*               status of its step
\*   slot        the row the last iterate left in the slot, 0 for an empty slot
\*   tuple       the host tuple in the slot, column by column; <<>> for an
\*               empty slot
\*   wasDone     the statement had returned SQLITE_DONE before that step
\*   teardown    the release calls issued by the last callback through
\*               cleanup_, with the sqlite3_errmsg read made ahead of it
\*   queryFreed  the query text of the plan's fdw_private has been passed
\*               to pfree
\*   queryValid  the query text was allocated memory when the last begin
\*               took it from the plan
NoLog == [binds |-> <<>>, err |-> "none", queryFreed |-> FALSE, explainOnly |-> FALSE,
          queryValid |-> TRUE,
          op |-> "none", prev |-> "none", steps |-> 0, rc |-> SQLITE_OK,
          slot |-> 0, wasDone |-> FALSE, teardown |-> <<>>, tuple |-> <<>>]

InitScan ==
    /\ festate = NoFestate
    /\ scanPc = "idle"
    /\ scanLog = NoLog

\* the record of a callback that starts: its predecessor is remembered
Called(log, op) ==
    [log EXCEPT !.op = op, !.prev = log.op, !.teardown = <<>>]

\* a teardown that closes the connection before it finalizes the statement
cleanup_close_first(eng, fs) ==
    LET e1 == IF fs.db # NULL THEN sqlite3_close(eng, fs.db) ELSE eng
        e2 == IF fs.stmt # NULL THEN sqlite3_finalize(e1, fs.stmt) ELSE e1
    IN [eng |-> e2, fs |-> [fs EXCEPT !.stmt = NULL, !.query = FALSE],
        freed |-> fs.query,
        calls |-> (IF fs.db # NULL THEN <<"sqlite3_close">> ELSE <<>>)
                  \o (IF fs.stmt # NULL THEN <<"sqlite3_finalize">> ELSE <<>>)
                  \o (IF fs.query THEN <<"pfree">> ELSE <<>>)]

\* cleanup_ (sqlite_fdw.c:1572-1587): [eng, fs, freed, calls]; freed tells
\* whether the query text was passed to pfree, calls lists the release calls
\* in the order they were issued
cleanup_(eng, fs) ==
    LET e1 == IF fs.stmt # NULL THEN sqlite3_finalize(eng, fs.stmt) ELSE eng
        f1 == IF fs.stmt # NULL THEN [fs EXCEPT !.stmt = NULL] ELSE fs
        e2 == IF f1.db # NULL THEN sqlite3_close(e1, f1.db) ELSE e1
        f2 == IF f1.db # NULL THEN [f1 EXCEPT !.stmt = NULL] ELSE f1
    IN [eng |-> e2, fs |-> [f2 EXCEPT !.query = FALSE], freed |-> f2.query,
        calls |-> (IF fs.stmt # NULL THEN <<"sqlite3_finalize">> ELSE <<>>)
                  \o (IF f1.db # NULL THEN <<"sqlite3_close">> ELSE <<>>)
                  \o (IF f2.query THEN <<"pfree">> ELSE <<>>)]

\* a binder that looks at the declared type before it looks at the null flag
BindCall_type_before_null(ptype, isNull) ==
    CASE ptype = "INT2OID" -> "sqlite3_bind_int"
      [] ptype = "INT4OID" -> "sqlite3_bind_int"
      [] ptype = "INT8OID" -> "sqlite3_bind_int64"
      [] OTHER -> IF isNull THEN "sqlite3_bind_null" ELSE "none"

\* a binder that passes 8-byte integers to the 32-bit call
BindCall_int8_truncated(ptype, isNull) ==
    IF isNull THEN "sqlite3_bind_null"
    ELSE CASE ptype = "INT2OID" -> "sqlite3_bind_int"
           [] ptype = "INT4OID" -> "sqlite3_bind_int"
           [] ptype = "INT8OID" -> "sqlite3_bind_int"
           [] OTHER -> "none"

\* the bind call sqlite_bind_param_value issues for a parameter
\* (sqlite_fdw.c:1539-1559); "none" when no call is issued
BindCall(ptype, isNull) ==
    IF isNull THEN "sqlite3_bind_null"
    ELSE CASE ptype = "INT2OID" -> "sqlite3_bind_int"
           [] ptype = "INT4OID" -> "sqlite3_bind_int"
           [] ptype = "INT8OID" -> "sqlite3_bind_int64"
           [] OTHER -> "none"

\* a loop that passes its zero-based counter as the placeholder index
BindEntry_zero_based(fdw_exprs, nulls, i) ==
    [index |-> i - 1, ptype |-> fdw_exprs[i], isNull |-> nulls[i],
     call |-> BindCall(fdw_exprs[i], nulls[i])]

\* the call of sqlite_bind_param_value made for the i-th expression of the
\* list (sqlite_fdw.c:1515-1526): index, declared type, null flag, and the
\* bind call that results
BindEntry(fdw_exprs, nulls, i) ==
    [index |-> i, ptype |-> fdw_exprs[i], isNull |-> nulls[i],
     call |-> BindCall(fdw_exprs[i], nulls[i])]

\* an error path that tears the state down before it reads the message
BindFailure_message_after_teardown(eng, fs) ==
    LET c == cleanup_(eng, fs)
    IN [eng |-> sqlite3_errmsg(c.eng, fs.db), fs |-> c.fs, freed |-> c.freed,
        calls |-> c.calls \o <<"sqlite3_errmsg">>]

\* the error path of sqlite_bind_param_value (sqlite_fdw.c:1561-1568): the
\* message is read from the connection, then the state is torn down, then
\* the error is raised
BindFailure(eng, fs) ==
    LET c == cleanup_(sqlite3_errmsg(eng, fs.db), fs)
    IN [eng |-> c.eng, fs |-> c.fs, freed |-> c.freed,
        calls |-> <<"sqlite3_errmsg">> \o c.calls]

\* sqlite_bind_param_values (sqlite_fdw.c:1495-1528) from parameter i on;
\* nulls[i] tells whether expression i evaluates to null, failAt is the index
\* whose bind call returns an error status (0: none does).
\* acc is [eng, fs, binds, ok, freed, calls].
RECURSIVE BindParamValues(_, _, _, _, _)
BindParamValues(fdw_exprs, nulls, failAt, i, acc) ==
    IF i > Len(fdw_exprs) THEN acc
    ELSE LET entry == BindEntry(fdw_exprs, nulls, i)
             rc == IF entry.call # "none" /\ failAt = i THEN SQLITE_ERROR ELSE SQLITE_OK
             logged == [acc EXCEPT !.binds = Append(@, entry)]
         IN IF rc # SQLITE_OK
            THEN LET c == BindFailure(logged.eng, logged.fs)
                 IN [logged EXCEPT !.eng = c.eng, !.fs = c.fs, !.ok = FALSE,
                                   !.freed = c.freed, !.calls = c.calls]
            ELSE BindParamValues(fdw_exprs, nulls, failAt, i + 1, logged)

\* sqliteBeginForeignScan (sqlite_fdw.c:725-780).  how, compiles: outcomes of
\* sqlite3_open and sqlite3_prepare_v2; eflags is not looked at.  The host
\* calls it once for a scan node, while fdw_state is still NULL.
\* festate->query is the pointer held by the plan, not a copy: when the
\* text was freed by an earlier execution, what sqlite3_prepare_v2 reads
\* there is the old text or whatever the allocator put in its place, so
\* the statement may compile or not (compiles).
sqliteBeginForeignScan(explainOnly, how, compiles, nulls, failAt) ==
    /\ planPc = "planned"
    /\ scanPc = "idle"
    /\ ~festate.alloc
    /\ LET o == sqliteOpen(sqlite, how)
           f0 == [ZeroFestate EXCEPT !.db = o.db]
           f1 == [f0 EXCEPT !.query = TRUE,
                            !.retrieved_attrs = plan.fdw_private.retrieved_attrs]
           p == sqlitePrepare(o.eng, f1.db, compiles)
           f2 == [f1 EXCEPT !.stmt = p.stmt]
           b == BindParamValues(plan.fdw_exprs, nulls, failAt, 1,
                    [eng |-> p.eng, fs |-> f2, binds |-> <<>>, ok |-> TRUE,
                     freed |-> FALSE, calls |-> <<>>])
           log == [NoLog EXCEPT !.explainOnly = explainOnly,
                                !.queryFreed = scanLog.queryFreed,
                                !.queryValid = ~scanLog.queryFreed,
                                !.op = "begin", !.prev = scanLog.op]
       IN IF ~o.ok
          THEN /\ sqlite' = o.eng /\ festate' = f0 /\ scanPc' = "error"
               /\ scanLog' = [log EXCEPT !.err = "open"]
          ELSE IF ~p.ok
          THEN /\ sqlite' = p.eng /\ festate' = f1 /\ scanPc' = "error"
               /\ scanLog' = [log EXCEPT !.err = "prepare"]
          ELSE /\ sqlite' = b.eng /\ festate' = b.fs
               /\ scanPc' = IF b.ok THEN "began" ELSE "error"
               /\ scanLog' = [log EXCEPT !.binds = b.binds,
                                         !.err = IF b.ok THEN "none" ELSE "bind",
                                         !.queryFreed = @ \/ b.freed,
                                         !.teardown = b.calls]
    /\ UNCHANGED planVars

\* rd_att->natts: the number of columns of the foreign table
Natts == Cardinality(Attrs)

\* sqlite3_column_count: the number of columns the statement selects
sqlite3_column_count(query) == Len(query.columns)
\* sqlite3_column_text(stmt, x - 1) on row number row: the text of the table
\* column that the x-th selected column names
sqlite3_column_text(query, row, x) ==
    [kind |-> "text", row |-> row, attr |-> query.columns[x]]
\* a column value that is no text of the table: "null", "garbage" or "fault"
NoText(kind) == [kind |-> kind, row |-> 0, attr |-> 0]

\* the values array filled by the loop of sqlite_fdw.c:825-831: one entry
\* per result column, in result column order
ColumnValues(query, row) ==
    [x \in 1..sqlite3_column_count(query) |-> sqlite3_column_text(query, row, x)]

\* BuildTupleFromCStrings(attinmeta, values) as called at sqlite_fdw.c:832:
\* host column a is read from values[a - 1] for each of the natts columns
\* of the table, whatever retrieved_attrs says.  The array has only
\* sqlite3_column_count entries; beyond is what the read of an entry past
\* its end gives: "null" (a null pointer, so a null column), "garbage" (some
\* other text) or "fault" (the input function faults on the stray pointer).
BuildTupleFromCStrings(values, retrieved_attrs, beyond) ==
    [a \in 1..Natts |-> IF a <= Len(values) THEN values[a] ELSE NoText(beyond)]

BeyondOutcomes == {"null", "garbage", "fault"}

\* sqliteIterateForeignScan (sqlite_fdw.c:783-838): the slot is cleared, the
\* statement is stepped, and only a SQLITE_ROW status fills the slot; every
\* other status leaves the empty slot to be returned.
\* more, fails, autoreset: what the engine does with the step; beyond: what
\* a read past the end of the values array gives.
sqliteIterateForeignScan(more, fails, autoreset, beyond) ==
    /\ scanPc = "began"
    /\ LET c == sqlite.cursor[festate.stmt]
           read == IF c.state \in {"done", "failed"} THEN 0 ELSE c.pos
           r == sqlite3_step(sqlite, festate.stmt, more /\ read < MaxRows,
                             fails, autoreset)
           cleared == [Called(scanLog, "iterate") EXCEPT !.slot = 0, !.tuple = <<>>]
           query == plan.fdw_private.query
           tuple == BuildTupleFromCStrings(ColumnValues(query, r.row),
                                           festate.retrieved_attrs, beyond)
           faults == r.rc = SQLITE_ROW /\ NoText("fault") \in Range(tuple)
           stepped == [cleared EXCEPT
                          !.steps = 1,
                          !.rc = r.rc,
                          !.wasDone = sqlite.cursor[festate.stmt].state = "done"]
       IN /\ sqlite' = r.eng
          /\ scanLog' = IF faults THEN [stepped EXCEPT !.err = "fault"]
                        ELSE IF r.rc = SQLITE_ROW
                        THEN [stepped EXCEPT !.slot = r.row, !.tuple = tuple]
                        ELSE stepped
          /\ scanPc' = IF faults THEN "error" ELSE scanPc
    /\ UNCHANGED <<festate, planVars>>

\* sqliteReScanForeignScan (sqlite_fdw.c:841-852): the body only logs
sqliteReScanForeignScan ==
    /\ scanPc = "began"
    /\ scanLog' = Called(scanLog, "rescan")
    /\ UNCHANGED <<sqlite, festate, scanPc, planVars>>

\* sqliteEndForeignScan (sqlite_fdw.c:855-859): cleanup_ on node->fdw_state.
\* When begin never ran, fdw_state is NULL and cleanup_ reads festate->stmt
\* through the null pointer; nullread is what that read does: "fault" ends
\* the backend, "zero" lets the reads see null fields.
sqliteEndForeignScan(nullread) ==
    /\ scanPc \in {"idle", "began", "ended"}
    /\ IF ~festate.alloc
       THEN /\ scanLog' = [Called(scanLog, "end") EXCEPT
                   !.err = IF nullread = "fault" THEN "fault" ELSE @]
            /\ scanPc' = IF nullread = "fault" THEN "error" ELSE "ended"
            /\ UNCHANGED <<sqlite, festate>>
       ELSE LET c == cleanup_(sqlite, festate)
            IN /\ sqlite' = c.eng
               /\ festate' = c.fs
               /\ scanLog' = [Called(scanLog, "end") EXCEPT
                      !.queryFreed = @ \/ c.freed, !.teardown = c.calls]
               /\ scanPc' = "ended"
    /\ UNCHANGED planVars

\* the queries planned in the scan specification
ScanRestrictions ==
    {<<"price_gt">>, <<"name_in", "price_gt", "id_between">>}

\* The host starts the next statement once the scan node of the previous one
\* is no longer running: the planner gets a new relation and the executor a
\* new ForeignScanState, whose fdw_state is still NULL.  The record of
\* misused handles starts afresh with the statement.
NewStatement(baserestrictinfo) ==
    /\ scanPc # "began"
    /\ NewBaseRel(baserestrictinfo, {1})
    /\ sqlite' = [sqlite EXCEPT !.misuse = {}]
    /\ festate' = NoFestate
    /\ scanPc' = "idle"
    /\ scanLog' = NoLog

\* The host executes a plan it kept (a prepared statement, a statement of
\* a stored procedure) once more after the previous execution ended: the
\* plan, with its fdw_private, is the same object, the ForeignScanState is
\* new and its fdw_state is NULL.  The record of misused handles starts
\* afresh with the execution.
ExecutePlanAgain ==
    /\ planPc = "planned"
    /\ scanPc = "ended"
    /\ festate.alloc
    /\ festate' = NoFestate
    /\ scanPc' = "idle"
    /\ scanLog' = [NoLog EXCEPT !.queryFreed = scanLog.queryFreed]
    /\ sqlite' = [sqlite EXCEPT !.misuse = {}]
    /\ UNCHANGED planVars

\* the outcomes of the engine calls of one begin: a begin whose open fails
\* makes no further call, one whose prepare fails binds nothing
BeginOutcomes(fdw_exprs) ==
    {<<how, TRUE, [i \in DOMAIN fdw_exprs |-> FALSE], 0>> : how \in {"cantopen", "nomem"}}
    \cup {<<"ok", FALSE, [i \in DOMAIN fdw_exprs |-> FALSE], 0>>}
    \cup {<<"ok", TRUE, nulls, failAt>> :
            nulls \in [DOMAIN fdw_exprs -> BOOLEAN], failAt \in 0..Len(fdw_exprs)}

NextScan ==
    \/ \E bri \in ScanRestrictions :
          /\ NewStatement(bri)
          /\ UNCHANGED <<hookVars, shipVars>>
    \/ \E safe \in SUBSET Range(baserel.baserestrictinfo) :
          /\ sqliteGetForeignRelSize(safe, <<"ok", TRUE, [rc |-> SQLITE_OK, estimate |-> 25]>>)
          /\ UNCHANGED <<hookVars, shipVars, scanVars>>
    \/ /\ sqliteGetForeignPlan(baserel.baserestrictinfo, {}, FALSE)
       /\ UNCHANGED <<hookVars, shipVars, scanVars>>
    \/ \E explainOnly \in BOOLEAN, o \in BeginOutcomes(plan.fdw_exprs) :
          /\ sqliteBeginForeignScan(explainOnly, o[1], o[2], o[3], o[4])
          /\ UNCHANGED <<hookVars, shipVars>>
    \/ \E more \in BOOLEAN, fails \in BOOLEAN, autoreset \in BOOLEAN,
          beyond \in BeyondOutcomes :
          /\ sqliteIterateForeignScan(more, fails, autoreset, beyond)
          /\ UNCHANGED <<hookVars, shipVars>>
    \/ sqliteReScanForeignScan /\ UNCHANGED <<hookVars, shipVars>>
    \/ ExecutePlanAgain /\ UNCHANGED <<hookVars, shipVars>>
    \/ \E nullread \in {"fault", "zero"} :
          /\ sqliteEndForeignScan(nullread)
          /\ UNCHANGED <<hookVars, shipVars>>

----------------------------------------------------------------------------
(* Data modification: sqliteAddForeignUpdateTargets,                       *)
(* sqlitePlanForeignModify, sqliteBeginForeignModify,                      *)
(* sqliteExecForeignInsert/Update/Delete, sqliteEndForeignModify           *)

\* most rows one statement modifies
MaxModifyRows == 3
\* the tuple table slots the executor passes to the per-row callbacks
Slots == {"slot1", "slot2", "slot3"}
ModifyOps == {"insert", "update", "delete"}

NoModify == [op |-> "none", pc |-> "none", fdw_private |-> <<>>,
             given |-> <<>>, returned |-> <<>>]
InitModify == modify = NoModify

\* The host starts an INSERT, UPDATE or DELETE on the foreign table
NewModifyTable(op) ==
    /\ modify.pc \in {"none", "ended"}
    /\ modify' = [NoModify EXCEPT !.op = op, !.pc = "rewritten"]
    /\ UNCHANGED sqlite

\* sqliteAddForeignUpdateTargets (sqlite_fdw.c:863-897): called for UPDATE
\* and DELETE only; adds no target column
sqliteAddForeignUpdateTargets ==
    /\ modify.pc = "rewritten" /\ modify.op \in {"update", "delete"}
    /\ modify' = [modify EXCEPT !.pc = "targets"]
    /\ UNCHANGED sqlite

\* sqlitePlanForeignModify (sqlite_fdw.c:900-930): returns NULL, the empty
\* list of private data
sqlitePlanForeignModify ==
    /\ \/ modify.pc = "rewritten" /\ modify.op = "insert"
       \/ modify.pc = "targets"
    /\ modify' = [modify EXCEPT !.pc = "planned", !.fdw_private = <<>>]
    /\ UNCHANGED sqlite

\* sqliteBeginForeignModify (sqlite_fdw.c:933-968): stores nothing
sqliteBeginForeignModify ==
    /\ modify.pc = "planned"
    /\ modify' = [modify EXCEPT !.pc = "began"]
    /\ UNCHANGED sqlite

\* a per-row callback that hands back the empty slot
ExecForeignModify_empty(slot) ==
    /\ modify.pc = "began"
    /\ Len(modify.given) < MaxModifyRows
    /\ modify' = [modify EXCEPT !.given = Append(@, slot),
                                !.returned = Append(@, "null")]
    /\ UNCHANGED sqlite

\* the body shared by sqliteExecForeignInsert, sqliteExecForeignUpdate and
\* sqliteExecForeignDelete: return slot
ExecForeignModify(slot) ==
    /\ modify.pc = "began"
    /\ Len(modify.given) < MaxModifyRows
    /\ modify' = [modify EXCEPT !.given = Append(@, slot),
                                !.returned = Append(@, slot)]
    /\ UNCHANGED sqlite

\* sqliteExecForeignInsert (sqlite_fdw.c:971-1007)
sqliteExecForeignInsert(slot) == modify.op = "insert" /\ ExecForeignModify(slot)
\* sqliteExecForeignUpdate (sqlite_fdw.c:1010-1046)
sqliteExecForeignUpdate(slot) == modify.op = "update" /\ ExecForeignModify(slot)
\* sqliteExecForeignDelete (sqlite_fdw.c:1049-1082)
sqliteExecForeignDelete(slot) == modify.op = "delete" /\ ExecForeignModify(slot)

\* sqliteEndForeignModify (sqlite_fdw.c:1085-1100): releases nothing
sqliteEndForeignModify ==
    /\ modify.pc = "began"
    /\ modify' = [modify EXCEPT !.pc = "ended"]
    /\ UNCHANGED sqlite

NextModify ==
    \/ \E op \in ModifyOps :
          NewModifyTable(op) /\ UNCHANGED <<shipVars, planVars, scanVars, typVars, impVars, allowVars>>
    \/ sqliteAddForeignUpdateTargets /\ UNCHANGED <<shipVars, planVars, scanVars, typVars, impVars, allowVars>>
    \/ sqlitePlanForeignModify /\ UNCHANGED <<shipVars, planVars, scanVars, typVars, impVars, allowVars>>
    \/ sqliteBeginForeignModify /\ UNCHANGED <<shipVars, planVars, scanVars, typVars, impVars, allowVars>>
    \/ \E slot \in Slots :
          sqliteExecForeignInsert(slot) /\ UNCHANGED <<shipVars, planVars, scanVars, typVars, impVars, allowVars>>
    \/ \E slot \in Slots :
          sqliteExecForeignUpdate(slot) /\ UNCHANGED <<shipVars, planVars, scanVars, typVars, impVars, allowVars>>
    \/ \E slot \in Slots :
          sqliteExecForeignDelete(slot) /\ UNCHANGED <<shipVars, planVars, scanVars, typVars, impVars, allowVars>>
    \/ sqliteEndForeignModify /\ UNCHANGED <<shipVars, planVars, scanVars, typVars, impVars, allowVars>>

----------------------------------------------------------------------------
(* Type translation of the schema import: sqliteTranslateType              *)

\* Type names are sequences of characters
UpperChars == <<"A", "B", "C", "D", "E", "F", "G", "H", "I", "J", "K", "L", "M", "N", "O", "P", "Q", "R", "S", "T", "U", "V", "W", "X", "Y", "Z">>
LowerChars == <<"a", "b", "c", "d", "e", "f", "g", "h", "i", "j", "k", "l", "m", "n", "o", "p", "q", "r", "s", "t", "u", "v", "w", "x", "y", "z">>
\* tolower in the C locale: only A-Z change
tolower(c) ==
    IF \E i \in DOMAIN UpperChars : UpperChars[i] = c
    THEN LowerChars[CHOOSE i \in DOMAIN UpperChars : UpperChars[i] = c]
    ELSE c
toupper(c) ==
    IF \E i \in DOMAIN LowerChars : LowerChars[i] = c
    THEN UpperChars[CHOOSE i \in DOMAIN LowerChars : LowerChars[i] = c]
    ELSE c
\* str_tolower(buff, nbytes, C_COLLATION_OID)
str_tolower(buff) == [i \in DOMAIN buff |-> tolower(buff[i])]
\* strcmp(a, b) == 0
strcmp0(a, b) == a = b
\* strncmp(a, b, n) == 0 for a b of n characters: a starts with b
strncmp0(a, b, n) == Len(a) >= n /\ SubSeq(a, 1, n) = SubSeq(b, 1, n)

\* the string constants of sqliteTranslateType (sqlite_fdw.c:1453-1482)
tinyint_ == <<"t", "i", "n", "y", "i", "n", "t">>
mediumint_ == <<"m", "e", "d", "i", "u", "m", "i", "n", "t">>
unsigned_big_int == <<"u", "n", "s", "i", "g", "n", "e", "d", " ", "b", "i", "g", " ", "i", "n", "t">>
double_ == <<"d", "o", "u", "b", "l", "e">>
datetime_ == <<"d", "a", "t", "e", "t", "i", "m", "e">>
nvarchar_text == <<"n", "v", "a", "r", "c", "h", "a", "r", " ", "t", "e", "x", "t">>
longvarchar_ == <<"l", "o", "n", "g", "v", "a", "r", "c", "h", "a", "r">>
text_ == <<"t", "e", "x", "t">>
blob_ == <<"b", "l", "o", "b">>
integer_ == <<"i", "n", "t", "e", "g", "e", "r">>
smallint_ == <<"s", "m", "a", "l", "l", "i", "n", "t">>
bigint_ == <<"b", "i", "g", "i", "n", "t">>
double_precision == <<"d", "o", "u", "b", "l", "e", " ", "p", "r", "e", "c", "i", "s", "i", "o", "n">>
timestamp_ == <<"t", "i", "m", "e", "s", "t", "a", "m", "p">>
bytea_ == <<"b", "y", "t", "e", "a">>

\* a translation that compares the name as given, without lower-casing it
sqliteTranslateType_case_sensitive(typname) ==
    LET type == typname
    IN IF strcmp0(type, tinyint_) THEN smallint_
       ELSE IF strcmp0(type, mediumint_) THEN integer_
       ELSE IF strcmp0(type, unsigned_big_int) THEN bigint_
       ELSE IF strcmp0(type, double_) THEN double_precision
       ELSE IF strcmp0(type, datetime_) THEN timestamp_
       ELSE IF strcmp0(type, nvarchar_text) THEN text_
       ELSE IF strcmp0(type, longvarchar_) THEN text_
       ELSE IF strncmp0(type, text_, 4) THEN text_
       ELSE IF strcmp0(type, blob_) THEN bytea_
       ELSE IF strcmp0(type, integer_) THEN bigint_
       ELSE type

\* sqliteTranslateType (sqlite_fdw.c:1441-1492): the text appended to the
\* statement for the type name typname
sqliteTranslateType(typname) ==
    LET type == str_tolower(typname)
    IN IF strcmp0(type, tinyint_) THEN smallint_
       ELSE IF strcmp0(type, mediumint_) THEN integer_
       ELSE IF strcmp0(type, unsigned_big_int) THEN bigint_
       ELSE IF strcmp0(type, double_) THEN double_precision
       ELSE IF strcmp0(type, datetime_) THEN timestamp_
       ELSE IF strcmp0(type, nvarchar_text) THEN text_
       ELSE IF strcmp0(type, longvarchar_) THEN text_
       ELSE IF strncmp0(type, text_, 4) THEN text_
       ELSE IF strcmp0(type, blob_) THEN bytea_
       ELSE IF strcmp0(type, integer_) THEN bigint_
       ELSE type

\* Lower-case type names a catalog may hold: those of the table, names that
\* contain or extend them, and names the table does not know
BaseTypeNames ==
    {<<"t", "i", "n", "y", "i", "n", "t">>,
     <<"m", "e", "d", "i", "u", "m", "i", "n", "t">>,
     <<"u", "n", "s", "i", "g", "n", "e", "d", " ", "b", "i", "g", " ", "i", "n", "t">>,
     <<"d", "o", "u", "b", "l", "e">>,
     <<"d", "a", "t", "e", "t", "i", "m", "e">>,
     <<"n", "v", "a", "r", "c", "h", "a", "r", " ", "t", "e", "x", "t">>,
     <<"l", "o", "n", "g", "v", "a", "r", "c", "h", "a", "r">>,
     <<"t", "e", "x", "t">>,
     <<"b", "l", "o", "b">>,
     <<"i", "n", "t", "e", "g", "e", "r">>,
     <<"t", "e", "x", "t", "u", "a", "l">>,
     <<"t", "e", "x", "t", "(", "2", "0", ")">>,
     <<"t", "e", "x">>,
     <<"n", "t", "e", "x", "t">>,
     <<"i", "n", "t">>,
     <<"b", "i", "g", "i", "n", "t">>,
     <<"d", "o", "u", "b", "l", "e", " ", "p", "r", "e", "c", "i", "s", "i", "o", "n">>,
     <<"v", "a", "r", "c", "h", "a", "r">>,
     <<"r", "e", "a", "l">>,
     <<"i", "n", "t", "e", "g", "e", "r", "s">>,
     <<"l", "o", "n", "g", " ", "v", "a", "r", "c", "h", "a", "r">>,
     <<"n", "v", "a", "r", "c", "h", "a", "r">>,
     <<"b", "l", "o", "b", "s">>,
     <<"d", "a", "t", "e">>,
     <<>>}
\* the spellings of a name: as is, upper case, capitalised, and with the
\* characters at odd or at even positions in upper case
Spellings(name) ==
    {[i \in DOMAIN name |-> IF i \in m THEN toupper(name[i]) ELSE name[i]] :
        m \in {{}, DOMAIN name, {1} \cap DOMAIN name,
               {i \in DOMAIN name : i % 2 = 1}, {i \in DOMAIN name : i % 2 = 0}}}
TypeNames == UNION {Spellings(name) : name \in BaseTypeNames}

NoTyp == [called |-> FALSE, typname |-> <<>>, str |-> <<>>]
InitTypes == typ = NoTyp

\* one call of sqliteTranslateType on an empty StringInfo
TranslateType(typname) ==
    typ' = [called |-> TRUE, typname |-> typname, str |-> sqliteTranslateType(typname)]

NextTypes ==
    \E typname \in TypeNames :
        TranslateType(typname) /\ UNCHANGED <<shipVars, engVars, planVars, scanVars, modVars, impVars, allowVars>>

----------------------------------------------------------------------------
(* Schema import: sqliteImportForeignSchema                                *)

\* quote_identifier: a name of lower-case letters, digits and underscores
\* that does not start with a digit and is no reserved word is left as it
\* is; any other name is put in double quotes, embedded quotes doubled
Digits == {"0", "1", "2", "3", "4", "5", "6", "7", "8", "9"}
ReservedWords == {<<"o", "r", "d", "e", "r">>, <<"t", "a", "b", "l", "e">>}
quote_identifier(ident) ==
    IF /\ ident # <<>>
       /\ ident[1] \notin Digits
       /\ \A i \in DOMAIN ident : ident[i] \in Range(LowerChars) \cup Digits \cup {"_"}
       /\ ident \notin ReservedWords
    THEN ident
    ELSE <<"\"">> \o Flatten([i \in DOMAIN ident |->
                        IF ident[i] = "\"" THEN <<"\"", "\"">> ELSE <<ident[i]>>])
                 \o <<"\"">>

\* The tables of the database file: name, whether the name matches
\* LIKE 'sqlite_%', and the rows of PRAGMA table_info in cid order: name,
\* type, notnull and dflt_value (the empty sequence for a NULL text)
Column(name, type, notnull, dflt_value) ==
    [name |-> name, type |-> type, notnull |-> notnull, dflt_value |-> dflt_value]
items ==
    [name |-> <<"i", "t", "e", "m", "s">>, like_sqlite |-> FALSE,
     cols |-> <<Column(<<"i", "d">>, <<"I", "N", "T", "E", "G", "E", "R">>, 1, <<>>),
                Column(<<"n", "a", "m", "e">>, <<"T", "E", "X", "T">>, 0, <<>>),
                Column(<<"p", "r", "i", "c", "e">>, <<"D", "O", "U", "B", "L", "E">>, 0, <<>>)>>]
log ==
    [name |-> <<"l", "o", "g">>, like_sqlite |-> FALSE,
     cols |-> <<Column(<<"t", "s">>, <<"D", "A", "T", "E", "T", "I", "M", "E">>, 1, <<"CURRENT_TIMESTAMP">>),
                Column(<<"O", "r", "d", "e", "r">>, <<"v", "a", "r", "c", "h", "a", "r">>, 0, <<"'new'">>)>>]
sqlite_sequence ==
    [name |-> <<"s", "q", "l", "i", "t", "e", "_", "s", "e", "q", "u", "e", "n", "c", "e">>, like_sqlite |-> TRUE,
     cols |-> <<Column(<<"n", "a", "m", "e">>, <<>>, 0, <<>>), Column(<<"s", "e", "q">>, <<>>, 0, <<>>)>>]
Catalogs == {<<>>, <<items>>, <<items, log>>, <<log, items>>, <<sqlite_sequence, items>>}

\* IMPORT FOREIGN SCHEMA statements: remote schema, options, and the
\* LIMIT TO / EXCEPT list
DefElem(defname, arg) == [defname |-> defname, arg |-> arg]
ImportOptions ==
    {<<>>,
     <<DefElem("import_not_null", FALSE)>>, <<DefElem("import_not_null", TRUE)>>,
     <<DefElem("import_default", TRUE)>>, <<DefElem("import_default", FALSE)>>,
     <<DefElem("import_default", TRUE), DefElem("import_not_null", FALSE)>>,
     <<DefElem("import_not_null", FALSE), DefElem("import_not_null", TRUE)>>,
     <<DefElem("import_collate", TRUE)>>,
     <<DefElem("import_default", TRUE), DefElem("import_all", TRUE)>>}
RemoteSchemas == {"public", "main", "temp", "Main"}
ImportStmts ==
    [remote_schema : RemoteSchemas, options : ImportOptions,
     list_type : {"FDW_IMPORT_SCHEMA_ALL", "FDW_IMPORT_SCHEMA_LIMIT_TO",
                  "FDW_IMPORT_SCHEMA_EXCEPT"},
     table_list : {{items.name}}, local_schema : {"public"},
     server_name : {<<"s", "r", "v">>}]

\* an option loop that knows no invalid option name
ParseOptions_lenient(options, flags) ==
    LET set(def, f) ==
            IF def.defname = "import_default" THEN [f EXCEPT !.import_default = def.arg]
            ELSE IF def.defname = "import_not_null" THEN [f EXCEPT !.import_not_null = def.arg]
            ELSE f
    IN IF Len(options) = 0 THEN flags
       ELSE IF Len(options) = 1 THEN set(options[1], flags)
       ELSE set(options[2], set(options[1], flags))

\* the option loop (sqlite_fdw.c:1266-1278): the last value given for an
\* option counts, the first unknown option name raises
RECURSIVE ParseOptions(_, _)
ParseOptions(options, flags) ==
    IF options = <<>> THEN flags
    ELSE LET def == Head(options)
         IN IF def.defname = "import_default"
            THEN ParseOptions(Tail(options), [flags EXCEPT !.import_default = def.arg])
            ELSE IF def.defname = "import_not_null"
            THEN ParseOptions(Tail(options), [flags EXCEPT !.import_not_null = def.arg])
            ELSE [flags EXCEPT !.err = "option"]

\* the checks before the connection (sqlite_fdw.c:1246-1278): the defaults
\* of the two flags, the schema name, then the options
ParseImportStmt(stmt) ==
    LET flags == [err |-> "none", import_default |-> FALSE, import_not_null |-> TRUE]
    IN IF stmt.remote_schema # "public" /\ stmt.remote_schema # "main"
       THEN [flags EXCEPT !.err = "schema"]
       ELSE ParseOptions(stmt.options, flags)

\* the rows of the table query (sqlite_fdw.c:1301-1327)
TableQuery(catalog, stmt) ==
    LET listed(t) ==
            /\ ~t.like_sqlite
            /\ stmt.list_type = "FDW_IMPORT_SCHEMA_LIMIT_TO" => t.name \in stmt.table_list
            /\ stmt.list_type = "FDW_IMPORT_SCHEMA_EXCEPT" => t.name \notin stmt.table_list
    IN SelectSeq(catalog, listed)

\* a column clause that states NOT NULL and DEFAULT whatever the flags say
ColumnClause_unconditional(col, flags) ==
    [name |-> quote_identifier(col.name),
     type |-> sqliteTranslateType(col.type),
     not_null |-> col.notnull = 1,
     default |-> col.dflt_value]

\* One column clause (sqlite_fdw.c:1363-1382), as the pieces appended in
\* this order: the quoted name, the translated type, " NOT NULL" if
\* not_null, and " DEFAULT " with the text of default if it is not empty
ColumnClause(col, flags) ==
    [name |-> quote_identifier(col.name),
     type |-> sqliteTranslateType(col.type),
     not_null |-> col.notnull = 1 /\ flags.import_not_null,
     default |-> IF col.dflt_value # <<>> /\ flags.import_default
                 THEN col.dflt_value ELSE <<>>]

\* the loop over the rows of PRAGMA table_info (sqlite_fdw.c:1356-1385):
\* it ends on any status other than SQLITE_ROW.  failAt: the step at which
\* the engine fails (0: none).  Result [eng, clauses, read].
RECURSIVE ImportColumns(_, _, _, _, _, _, _)
ImportColumns(eng, cols, columns, flags, failAt, i, clauses) ==
    LET r == sqlite3_step(eng, cols, i <= Len(columns), i = failAt, TRUE)
    IN IF r.rc = SQLITE_ROW
       THEN ImportColumns(r.eng, cols, columns, flags, failAt, i + 1,
                          Append(clauses, ColumnClause(columns[i], flags)))
       ELSE [eng |-> r.eng, clauses |-> clauses]

\* the statement built for one table (sqlite_fdw.c:1346-1391)
CreateForeignTable(stmt, tbl_name, clauses) ==
    [local_schema |-> stmt.local_schema, table |-> quote_identifier(tbl_name),
     columns |-> clauses, server |-> quote_identifier(stmt.server_name),
     options_table |-> quote_identifier(tbl_name)]

\* the loop over the rows of the table query (sqlite_fdw.c:1331-1397); it
\* too ends on any status other than SQLITE_ROW.  out: what the engine does
\* (colsFailAt: the table whose column statement does not prepare,
\* tblStepFailAt and colStepFailAt: the steps that fail).  acc collects the
\* commands, the column statements prepared and the tables yielded.
\* Result: acc with eng and raised (sqlitePrepare raised an error).
RECURSIVE ImportTables(_, _, _, _, _, _, _, _, _)
ImportTables(eng, db, tbls, tables, stmt, flags, out, k, acc) ==
    LET r == sqlite3_step(eng, tbls, k <= Len(tables), k = out.tblStepFailAt, TRUE)
        p == sqlitePrepare(r.eng, db, k # out.colsFailAt)
        c == ImportColumns(p.eng, p.stmt, tables[k].cols, flags, out.colStepFailAt,
                           1, <<>>)
        yielded == Append(acc.yielded, tables[k])
    IN IF r.rc # SQLITE_ROW
       THEN [acc EXCEPT !.eng = r.eng]
       ELSE IF ~p.ok
       THEN [acc EXCEPT !.eng = p.eng, !.raised = TRUE, !.yielded = yielded]
       ELSE ImportTables(c.eng, db, tbls, tables, stmt, flags, out, k + 1,
                [acc EXCEPT !.commands = Append(@, CreateForeignTable(stmt,
                                                      tables[k].name, c.clauses)),
                            !.cols = Append(@, p.stmt),
                            !.yielded = yielded])

NoImport == [pc |-> "none", err |-> "none", stmt |-> <<>>,
             import_default |-> FALSE, import_not_null |-> TRUE,
             opened |-> FALSE, db |-> NULL, tbls |-> NULL, cols |-> <<>>,
             yielded |-> <<>>, commands |-> <<>>]
InitImport == imp = NoImport

\* what the engine does during one import
ImportOutcomes ==
    LET fine == [how |-> "ok", tblsCompiles |-> TRUE, colsFailAt |-> 0,
                 tblStepFailAt |-> 0, colStepFailAt |-> 0]
    IN {fine, [fine EXCEPT !.how = "cantopen"], [fine EXCEPT !.tblsCompiles = FALSE],
        [fine EXCEPT !.colsFailAt = 1], [fine EXCEPT !.colsFailAt = 2],
        [fine EXCEPT !.tblStepFailAt = 1], [fine EXCEPT !.tblStepFailAt = 2],
        [fine EXCEPT !.colStepFailAt = 2]}

\* sqliteImportForeignSchema (sqlite_fdw.c:1234-1417).  pc is "returned" or
\* "error"; err names the error raised: "schema", "option", "open" or
\* "prepare".
sqliteImportForeignSchema(stmt, catalog, out) ==
    LET eng0 == [sqlite EXCEPT !.misuse = {}]
        flags == ParseImportStmt(stmt)
        o == sqliteOpen(eng0, out.how)
        t == sqlitePrepare(o.eng, o.db, out.tblsCompiles)
        run == ImportTables(t.eng, o.db, t.stmt, TableQuery(catalog, stmt), stmt,
                            flags, out, 1,
                            [eng |-> t.eng, raised |-> FALSE, commands |-> <<>>,
                             cols |-> <<>>, yielded |-> <<>>])
        \* PG_CATCH (1403-1408) and the normal exit (1413-1414) release alike
        release(eng, tbls) == sqlite3_close(sqlite3_finalize(eng, tbls), o.db)
        parsed == [NoImport EXCEPT !.stmt = stmt,
                                   !.import_default = flags.import_default,
                                   !.import_not_null = flags.import_not_null]
        opened == [parsed EXCEPT !.opened = TRUE, !.db = o.db]
        ran == [opened EXCEPT !.tbls = t.stmt, !.cols = run.cols,
                              !.yielded = run.yielded]
    IN IF flags.err # "none"
       THEN /\ imp' = [parsed EXCEPT !.pc = "error", !.err = flags.err]
            /\ sqlite' = eng0
       ELSE IF ~o.ok
       THEN /\ imp' = [opened EXCEPT !.pc = "error", !.err = "open"]
            /\ sqlite' = o.eng
       ELSE IF ~t.ok
       THEN /\ imp' = [opened EXCEPT !.pc = "error", !.err = "prepare"]
            /\ sqlite' = release(t.eng, NULL)
       ELSE IF run.raised
       THEN /\ imp' = [ran EXCEPT !.pc = "error", !.err = "prepare"]
            /\ sqlite' = release(run.eng, t.stmt)
       ELSE /\ imp' = [ran EXCEPT !.pc = "returned", !.commands = run.commands]
            /\ sqlite' = release(run.eng, t.stmt)

\* the imports explored: every statement without a table list on one
\* table, every single option and every table list on every catalog, all
\* with an engine that works, and every engine outcome on every catalog
\* for a statement without options
FineOutcome == CHOOSE out \in ImportOutcomes :
                  /\ out.how = "ok" /\ out.tblsCompiles /\ out.colsFailAt = 0
                  /\ out.tblStepFailAt = 0 /\ out.colStepFailAt = 0
PlainStmts == {stmt \in ImportStmts : /\ stmt.remote_schema = "main"
                                      /\ stmt.list_type = "FDW_IMPORT_SCHEMA_ALL"}
ImportInputs ==
    {<<stmt, <<items>>, FineOutcome>> :
        stmt \in {x \in ImportStmts : x.list_type = "FDW_IMPORT_SCHEMA_ALL"}}
    \cup {<<stmt, catalog, FineOutcome>> :
            stmt \in {x \in PlainStmts : Len(x.options) = 1}
                        \cup {x \in ImportStmts : /\ x.remote_schema = "main"
                                                  /\ x.options = <<>>},
            catalog \in Catalogs}
    \cup {<<stmt, catalog, out>> :
            stmt \in {x \in PlainStmts : x.options = <<>>},
            catalog \in Catalogs, out \in ImportOutcomes}

NextImport ==
    \E in \in ImportInputs :
        /\ sqliteImportForeignSchema(in[1], in[2], in[3])
        /\ UNCHANGED <<shipVars, planVars, scanVars, modVars, typVars, allowVars>>

----------------------------------------------------------------------------
(* Name allowlists: is_inarray, is_allowed_name, is_shippable_agg,         *)
(* is_shippable_func, is_shippable_op (src/src/shippable.c)                *)

\* the OID of the schema pg_catalog
PG_CATALOG_NAMESPACE == 11
\* pg_proc: function funcid has the name and the schema given by its
\* position in the two lists; the schemas are pg_catalog, public and the
\* schema of an extension
ProNames == <<"abs", "coalesce", "avg", "average", "max", "min", "sum",
              "count", "lower", "ABS", "absolute", "maximum", "summary">>
ProNamespaces == <<PG_CATALOG_NAMESPACE, 2200, 16384>>
FuncIds == 1..(Len(ProNames) * Len(ProNamespaces))
pg_proc ==
    [funcid \in FuncIds |->
        [proname |-> ProNames[((funcid - 1) % Len(ProNames)) + 1],
         pronamespace |-> ProNamespaces[((funcid - 1) \div Len(ProNames)) + 1]]]
\* a function OID with no row in pg_proc
NoSuchFunction == Len(ProNames) * Len(ProNamespaces) + 1

\* is_inarray (shippable.c:223-230)
is_inarray(teststr, array) == \E i \in DOMAIN array : teststr = array[i]

\* a name test that does not look at the schema of the function
is_allowed_name_any_namespace(funcid, allowed_names) ==
    IF funcid \notin DOMAIN pg_proc
    THEN [pc |-> "error", result |-> FALSE]
    ELSE [pc |-> "returned",
          result |-> is_inarray(pg_proc[funcid].proname, allowed_names)]

\* is_allowed_name (shippable.c:233-253): [pc, result]; pc = "error" is the
\* elog(ERROR) of a failed cache lookup
is_allowed_name(funcid, allowed_names) ==
    IF funcid \notin DOMAIN pg_proc
    THEN [pc |-> "error", result |-> FALSE]
    ELSE LET procform == pg_proc[funcid]
         IN [pc |-> "returned",
             result |-> IF procform.pronamespace = PG_CATALOG_NAMESPACE
                        THEN is_inarray(procform.proname, allowed_names)
                        ELSE FALSE]

\* the allowed_names array of each of the three functions
\* (shippable.c:259, 268, 277)
allowed_names ==
    [is_shippable_agg |-> <<"avg", "average", "max", "min", "sum">>,
     is_shippable_func |-> <<"abs", "coalesce">>,
     is_shippable_op |-> <<"avg", "average", "max", "min", "sum">>]

NoAllow == [fn |-> "none", funcid |-> 0, pc |-> "none", result |-> FALSE]
InitAllow == allow = NoAllow

\* is_shippable_agg (shippable.c:256-262)
is_shippable_agg(funcid) ==
    LET r == is_allowed_name(funcid, allowed_names.is_shippable_agg)
    IN allow' = [fn |-> "is_shippable_agg", funcid |-> funcid,
                 pc |-> r.pc, result |-> r.result]

\* is_shippable_func (shippable.c:265-271)
is_shippable_func(funcid) ==
    LET r == is_allowed_name(funcid, allowed_names.is_shippable_func)
    IN allow' = [fn |-> "is_shippable_func", funcid |-> funcid,
                 pc |-> r.pc, result |-> r.result]

\* is_shippable_op (shippable.c:274-280)
is_shippable_op(funcid) ==
    LET r == is_allowed_name(funcid, allowed_names.is_shippable_op)
    IN allow' = [fn |-> "is_shippable_op", funcid |-> funcid,
                 pc |-> r.pc, result |-> r.result]

NextAllow ==
    \/ \E funcid \in FuncIds \cup {NoSuchFunction} :
          /\ is_shippable_agg(funcid)
          /\ UNCHANGED <<shipVars, engVars, planVars, scanVars, modVars, typVars, impVars>>
    \/ \E funcid \in FuncIds \cup {NoSuchFunction} :
          /\ is_shippable_func(funcid)
          /\ UNCHANGED <<shipVars, engVars, planVars, scanVars, modVars, typVars, impVars>>
    \/ \E funcid \in FuncIds \cup {NoSuchFunction} :
          /\ is_shippable_op(funcid)
          /\ UNCHANGED <<shipVars, engVars, planVars, scanVars, modVars, typVars, impVars>>

----------------------------------------------------------------------------
(* Properties of the shippability cache                                    *)

CallDone == shipCall.pc = "done"
CallBuiltin == shipCall.objectId < FirstBootstrapObjectId
CallKey == [objid |-> shipCall.objectId, classid |-> shipCall.classId, serverid |-> 0]
CallExtension == getExtensionOfObject(shipCall.classId, shipCall.objectId)

\* C1: a call for an object id below FirstBootstrapObjectId returns true
\* and neither allocates, reads nor writes the cache, nor reads the caller's
\* extension list, whatever calls and flushes came before.
C1_BuiltinResult ==
    (CallDone /\ CallBuiltin) =>
        /\ shipCall.result = TRUE
        /\ shipCall.finds = 0 /\ shipCall.enters = 0 /\ shipCall.inits = 0
        /\ ~shipCall.listRead /\ ~shipCall.lookedUp
C1_BuiltinShortCircuit ==
    /\ []C1_BuiltinResult
    /\ [][(shipEv' = "is_shippable" /\ shipCall'.objectId < FirstBootstrapObjectId)
            => (ShippableCacheHash' = ShippableCacheHash /\ shipCall'.pc = "done")]_vars
C1_Witness ==
    /\ CallDone /\ CallBuiltin /\ shipCall.result
    /\ shipCall.fpinfo.shippable_extensions # NIL
    /\ ShippableCacheHash.allocated

\* C2: a call for a non-built-in object by a caller whose extension list is
\* empty returns false and leaves the cache as it was: not allocated if it was
\* absent, no entry read, none added.
C2_NoExtensionsResult ==
    (CallDone /\ ~CallBuiltin /\ shipCall.fpinfo.shippable_extensions = NIL) =>
        /\ shipCall.result = FALSE
        /\ shipCall.finds = 0 /\ shipCall.enters = 0 /\ shipCall.inits = 0
        /\ ~shipCall.lookedUp
C2_NoExtensionsNoCache ==
    /\ []C2_NoExtensionsResult
    /\ [][(/\ shipEv' = "is_shippable"
           /\ shipCall'.objectId >= FirstBootstrapObjectId
           /\ shipCall'.fpinfo.shippable_extensions = NIL)
            => (ShippableCacheHash' = ShippableCacheHash /\ shipCall'.pc = "done")]_vars
C2_Witness ==
    /\ CallDone /\ ~CallBuiltin /\ shipCall.fpinfo.shippable_extensions = NIL
    /\ ~shipCall.result
    /\ ~ShippableCacheHash.allocated
    /\ \E srv \in Servers : srvExts[srv] # NIL

\* C3 (as claimed): the result of a call for a non-built-in object is true iff
\* the object's owning extension is valid and in the calling relation's
\* configured extension list.
C3_ResultFollowsCallerList ==
    (CallDone /\ ~CallBuiltin) =>
        (shipCall.result <=>
            (OidIsValid(CallExtension)
                /\ CallExtension \in shipCall.fpinfo.shippable_extensions))

\* C4 (as claimed): a decision cached on behalf of one server is never
\* returned to a lookup made on behalf of another server.
C4_HitIsForSameServer ==
    (CallDone /\ shipCall.hit) => shipCall.servedFor = shipCall.fpinfo.serverid

\* C5: between two flushes each key the cache holds was looked up exactly
\* once, a call that finds the key returns the stored boolean without another
\* lookup, a call that misses looks it up, and a stored boolean never changes
\* while its entry exists.
C5_OneLookupState ==
    /\ DOMAIN lookups = DOMAIN ShippableCacheHash.entries
    /\ \A k \in DOMAIN ShippableCacheHash.entries : lookups[k] = 1
    /\ (CallDone /\ shipCall.hit) =>
          /\ ~shipCall.lookedUp /\ shipCall.enters = 0
          /\ (CallKey \in DOMAIN ShippableCacheHash.entries
                => shipCall.result = ShippableCacheHash.entries[CallKey])
    /\ (CallDone /\ shipCall.finds = 1 /\ ~shipCall.hit) =>
          /\ shipCall.lookedUp /\ shipCall.enters = 1
C6_FlushEmptiesCache ==
    /\ (shipEv = "invalidate" => DOMAIN ShippableCacheHash.entries = {})
    /\ (shipCall.pc # "idle" /\ shipCall.wasFlushed) => ~shipCall.hit
    /\ (CallDone /\ shipCall.wasFlushed) => (shipCall.lookedUp /\ shipCall.enters = 1)
C6_Witness ==
    /\ CallDone /\ shipCall.wasFlushed /\ shipCall.lookedUp
    /\ Cardinality(DOMAIN ShippableCacheHash.entries) = 1
    /\ Cardinality(flushed) >= 2

----------------------------------------------------------------------------
(* Properties of the predicate classifier                                  *)

Sized == planPc \in {"sized", "planned", "error"}
Fpinfo == baserel.fdw_private

\* C7: after relation sizing, remote_conds and local_conds partition the
\* restriction clauses: each clause of the input is in exactly one of the two
\* lists, nothing else is in them, and a clause is in remote_conds iff the
\* safety test returned true for it.
C7_StrictPartition ==
    Sized =>
        /\ Range(Fpinfo.remote_conds) \cap Range(Fpinfo.local_conds) = {}
        /\ \A c \in Clauses :
              /\ Count(Fpinfo.remote_conds, c) + Count(Fpinfo.local_conds, c)
                    = Count(baserel.baserestrictinfo, c)
              /\ c \in Range(baserel.baserestrictinfo) =>
                    (c \in Range(Fpinfo.remote_conds) <=> c \in planIn.sizeSafe)
C7_Witness ==
    /\ planPc = "sized"
    /\ Fpinfo.remote_conds = <<"price_gt">>
    /\ Fpinfo.local_conds = <<"name_in">>

\* C8: after relation sizing, attrs_used holds the target list's attributes
\* and every attribute a local-only clause references, and nothing on account
\* of the remote clauses.
C8_LocalAttrsFetched ==
    Sized =>
        Fpinfo.attrs_used =
            baserel.reltarget \cup UNION {ClauseAttrs(c) : c \in Range(Fpinfo.local_conds)}
C8_Witness ==
    /\ planPc = "sized"
    /\ baserel.reltarget = {}
    /\ "name_in" \in Range(Fpinfo.local_conds)
    /\ "price_gt" \in Range(Fpinfo.remote_conds)
    /\ Fpinfo.attrs_used = {2}

\* C9: at final-plan time a scan clause sizing classified keeps that
\* classification and is not given to the safety test again; only clauses in
\* neither earlier list are tested; pseudoconstants go to neither expression
\* list; every other scan clause is in exactly one of remote_exprs and
\* local_exprs.
C9_NoReclassification ==
    planPc = "planned" =>
        /\ Range(planIn.planTested) \subseteq Range(planIn.scan_clauses)
        /\ \A c \in Range(planIn.scan_clauses) :
              LET r == Count(plan.remote_exprs, c)
                  l == Count(plan.local_exprs, c)
                  tested == c \in Range(planIn.planTested)
              IN IF Pseudoconstant(c) THEN r = 0 /\ l = 0 /\ ~tested
                 ELSE IF c \in Range(Fpinfo.remote_conds) THEN r = 1 /\ l = 0 /\ ~tested
                 ELSE IF c \in Range(Fpinfo.local_conds) THEN r = 0 /\ l = 1 /\ ~tested
                 ELSE /\ tested /\ r + l = 1
                      /\ (r = 1 <=> c \in planIn.planSafe)
C9_Witness ==
    /\ planPc = "planned"
    /\ planIn.scan_clauses = <<"true", "name_in", "price_gt">>
    /\ Fpinfo.local_conds = <<"name_in">>
    /\ planIn.retested = {"name_in"}
    /\ plan.local_exprs = <<"name_in">>
    /\ planIn.planTested = <<"price_gt">>
    /\ plan.remote_exprs = <<"price_gt">>

----------------------------------------------------------------------------
(* Properties of scan execution                                            *)

\* C10 (as claimed): when begin fails because the database cannot be opened
\* or the statement cannot be prepared, the connection handle that begin
\* obtained is closed when the error is raised.
C10_FailedBeginClosesConnection ==
    (scanPc = "error" /\ scanLog.err \in {"open", "prepare"}) =>
        (festate.db = NULL \/ festate.db \notin sqlite.open)

\* the last callback was an iterate
Iterated == scanLog.op = "iterate"

\* C11 (as claimed): every iterate steps the statement exactly once; when
\* the step yields a row the slot holds that row, when the statement is
\* exhausted the slot is empty and no error is raised; and an iterate that
\* directly follows an iterate on the exhausted statement returns an empty
\* slot again.
C11_IterateAfterExhaustionIsEmpty ==
    Iterated =>
        /\ scanLog.steps = 1
        /\ ((scanLog.rc = SQLITE_ROW /\ scanLog.err # "fault") =>
               scanLog.slot = sqlite.cursor[festate.stmt].pos /\ scanLog.slot > 0)
        /\ (scanLog.rc = SQLITE_DONE => scanLog.slot = 0 /\ scanPc = "began")
        /\ ((scanLog.prev = "iterate" /\ scanLog.wasDone) => scanLog.slot = 0)

\* C12 (as claimed): a failure of the remote engine is never swallowed: when
\* the step of an iterate returns a status that is neither a row nor the end
\* of the data, the scan is aborted with an error instead of handing the
\* empty slot back as if the data had ended.
C12_StepErrorIsRaised ==
    (Iterated /\ scanLog.rc \notin {SQLITE_ROW, SQLITE_DONE}) => scanPc = "error"

\* C21 (as claimed): in every tuple iterate produces, the i-th result column
\* of the statement is at the host column the i-th retrieved attribute
\* names, and every host column that no retrieved attribute names is null.
C21_ColumnsFollowRetrievedAttrs ==
    (Iterated /\ scanLog.rc = SQLITE_ROW) =>
        LET ra == festate.retrieved_attrs
            query == plan.fdw_private.query
        IN /\ DOMAIN scanLog.tuple = Attrs
           /\ \A i \in DOMAIN ra :
                 scanLog.tuple[ra[i]] = sqlite3_column_text(query, scanLog.slot, i)
           /\ \A a \in Attrs \ Range(ra) : scanLog.tuple[a] = NoText("null")

\* the last callback was the first end of a scan that began
EndedBegunScan ==
    scanLog.op = "end" /\ scanLog.prev \in {"begin", "iterate", "rescan"}

\* the calls of a teardown that release a native handle
HandleReleases(calls) ==
    SelectSeq(calls, LAMBDA c : c \in {"sqlite3_finalize", "sqlite3_close"})

\* C13: once end has run on a scan that began, whatever iterate and rescan
\* calls came in between, the statement has been finalized and then the
\* connection closed: the teardown issued finalize before close, no
\* statement is left on the connection and the connection is not open.
C13_EndFinalizesThenCloses ==
    EndedBegunScan =>
        /\ HandleReleases(scanLog.teardown) = <<"sqlite3_finalize", "sqlite3_close">>
        /\ festate.stmt = NULL
        /\ StmtsOf(sqlite, festate.db) = {}
        /\ festate.db \notin sqlite.open
        /\ "close with unfinalized statement" \notin sqlite.misuse

\* an end that follows the fetch of every row of a full result set
C13_Witness ==
    /\ EndedBegunScan
    /\ scanLog.prev = "iterate"
    /\ scanLog.slot = MaxRows
    /\ scanLog.teardown = <<"sqlite3_finalize", "sqlite3_close", "pfree">>
    /\ festate.db # NULL
    /\ festate.db \notin sqlite.open

\* C14 (as claimed): teardown is idempotent: an end that directly follows
\* an end of the same scan finalizes no statement, closes no connection and
\* frees no query text.
C14_SecondTeardownReleasesNothing ==
    (scanLog.op = "end" /\ scanLog.prev = "end") => scanLog.teardown = <<>>

\* C15 (as claimed): end on a scan node for which begin never ran, so that
\* no execution state exists, neither raises nor faults and issues no
\* finalize and no close.
C15_EndWithoutBeginIsHarmless ==
    (scanLog.op = "end" /\ ~festate.alloc) =>
        /\ scanLog.err = "none"
        /\ scanPc = "ended"
        /\ HandleReleases(scanLog.teardown) = <<>>

\* C16 (as claimed): a rescan leaves the statement as a begin leaves it, on
\* a connection that is still open, so that the next iterate that yields a
\* row yields the first row of the result set.
C16_RescanRestartsFromFirstRow ==
    /\ scanLog.op = "rescan" =>
          /\ festate.db \in sqlite.open
          /\ sqlite.cursor[festate.stmt] = FreshCursor
    /\ (Iterated /\ scanLog.prev = "rescan" /\ scanLog.rc = SQLITE_ROW) =>
          scanLog.slot = 1

----------------------------------------------------------------------------
(* Properties of parameter binding                                         *)

Binds == scanLog.binds
\* the calls of the binder made for a parameter of declared type ptype
BindsOfType(ptype, isNull) ==
    {k \in DOMAIN Binds : Binds[k].ptype = ptype /\ Binds[k].isNull = isNull}
\* the declared types of the parameters of the largest planned query
AllParamTypes == <<"TEXTOID", "INT4OID", "INT2OID", "INT8OID">>

\* C17: whatever its declared type, a parameter whose value is null is bound
\* by one sqlite3_bind_null call at its index, never by a typed bind call.
C17_NullBindsNull ==
    \A k \in DOMAIN Binds :
        Binds[k].isNull =>
            /\ Binds[k].call = "sqlite3_bind_null"
            /\ Cardinality({j \in DOMAIN Binds : Binds[j].index = Binds[k].index}) = 1

\* a scan began with a null value for a parameter of every declared type
C17_Witness ==
    /\ scanPc = "began"
    /\ \A i \in DOMAIN AllParamTypes : BindsOfType(AllParamTypes[i], TRUE) # {}
    /\ \A k \in DOMAIN Binds : Binds[k].call = "sqlite3_bind_null"

\* C18: when a bind call returns a status other than SQLITE_OK, the message
\* is read from the connection while it is open, then the statement is
\* finalized and the connection closed, and only then is the error raised:
\* no handle of the scan is left open.
C18_BindFailureTearsDown ==
    scanLog.err = "bind" =>
        /\ scanPc = "error"
        /\ scanLog.teardown =
               <<"sqlite3_errmsg", "sqlite3_finalize", "sqlite3_close", "pfree">>
        /\ "errmsg of closed connection" \notin sqlite.misuse
        /\ festate.stmt = NULL
        /\ StmtsOf(sqlite, festate.db) = {}
        /\ festate.db \notin sqlite.open

\* the bind call of the last parameter of the largest query fails
C18_Witness ==
    /\ scanLog.err = "bind"
    /\ Len(Binds) = Len(AllParamTypes)
    /\ Binds[Len(Binds)].call = "sqlite3_bind_int64"
    /\ festate.db # NULL
    /\ festate.db \notin sqlite.open
    /\ sqlite.misuse = {}

\* C19: begin passes the runtime parameters to the binder in list order:
\* the k-th call carries index k and the declared type of the k-th
\* expression, and a scan that began has had every index 1..n bound once.
C19_BindsInListOrder ==
    /\ \A k \in DOMAIN Binds :
          /\ Binds[k].index = k
          /\ k \in DOMAIN plan.fdw_exprs
          /\ Binds[k].ptype = plan.fdw_exprs[k]
    /\ scanPc = "began" => Len(Binds) = Len(plan.fdw_exprs)

\* a scan began with the four parameters of the largest query
C19_Witness ==
    /\ scanPc = "began"
    /\ plan.fdw_exprs = AllParamTypes
    /\ [k \in DOMAIN Binds |-> Binds[k].index] = <<1, 2, 3, 4>>
    /\ [k \in DOMAIN Binds |-> Binds[k].ptype] = AllParamTypes

\* the bind call the claim gives a non-null parameter of a declared type
DispatchTable(ptype) ==
    IF ptype \in {"INT2OID", "INT4OID"} THEN "sqlite3_bind_int"
    ELSE IF ptype = "INT8OID" THEN "sqlite3_bind_int64"
    ELSE "none"

\* C20: a non-null parameter of a 2-byte or 4-byte integer type goes to
\* sqlite3_bind_int, one of the 8-byte integer type to sqlite3_bind_int64;
\* for any other declared type no bind call is made and the binder raises
\* no error.
C20_DispatchByType ==
    /\ \A k \in DOMAIN Binds :
          ~Binds[k].isNull => Binds[k].call = DispatchTable(Binds[k].ptype)
    /\ scanLog.err = "bind" => Binds[Len(Binds)].call # "none"

\* a scan began with a non-null value for a parameter of every declared type
C20_Witness ==
    /\ scanPc = "began"
    /\ \A i \in DOMAIN AllParamTypes : BindsOfType(AllParamTypes[i], FALSE) # {}
    /\ \E k \in DOMAIN Binds : Binds[k].call = "none"
    /\ \E k \in DOMAIN Binds : Binds[k].call = "sqlite3_bind_int64"

----------------------------------------------------------------------------
(* Properties of the row estimate                                          *)

\* GetEstimatedRows was called for the relation being planned
Probed == planIn.probe.exit # "none"

\* C22 (as claimed): whatever exit GetEstimatedRows took, by return or by an
\* error, the statement it prepared is finalized and the connection it
\* opened is closed once it has left, so that no later scan can be run on
\* that connection.
C22_EstimateProbeIsDisposable ==
    Probed => /\ planIn.probe.stmt \notin LiveStmts(sqlite)
              /\ planIn.probe.db \notin sqlite.open

\* C23: when the scan-status call gives an error status, sizing ends in an
\* error and the row and tuple estimates of the relation are left at zero;
\* when it gives SQLITE_OK, the estimate (in tenths of a row) cut down to
\* whole rows is both the row estimate and the tuple estimate.
C23_EstimateSetsRowsAndTuples ==
    planIn.probe.exit \in {"scanstatus", "return"} =>
        LET stat == planIn.probe.stat
        IN IF stat.rc # SQLITE_OK
           THEN /\ planIn.probe.exit = "scanstatus"
                /\ planPc = "error"
                /\ baserel.rows = 0 /\ baserel.tuples = 0
           ELSE /\ planIn.probe.exit = "return"
                /\ planPc \in {"sized", "planned"}
                /\ baserel.rows * 10 <= stat.estimate
                /\ stat.estimate < (baserel.rows + 1) * 10
                /\ baserel.tuples = baserel.rows
C23_Witness ==
    /\ planPc = "sized"
    /\ planIn.probe.exit = "return"
    /\ planIn.probe.stat.estimate = 39
    /\ baserel.rows = 3 /\ baserel.tuples = 3

----------------------------------------------------------------------------
(* Properties of the data-modification callbacks                           *)

\* C24: each of the insert, update and delete callbacks returns, for every
\* row, the slot it was given, and no callback of a data-modification
\* statement (plan, begin, per-row, end) changes the engine: no connection
\* is opened, no statement prepared, nothing stepped.
C24_ModifyIsInert ==
    /\ [](modify.returned = modify.given)
    /\ [][modify' # modify => sqlite' = sqlite]_vars
C24_Witness ==
    /\ modify.pc = "ended" /\ modify.op = "update"
    /\ Len(modify.given) = MaxModifyRows
    /\ modify.given[1] # modify.given[2]
    /\ modify.fdw_private = <<>>

----------------------------------------------------------------------------
(* Properties of the type translation                                      *)

\* the translation table as the specification states it
TranslationTable ==
    {<<tinyint_, smallint_>>, <<mediumint_, integer_>>,
     <<unsigned_big_int, bigint_>>, <<double_, double_precision>>,
     <<datetime_, timestamp_>>, <<nvarchar_text, text_>>,
     <<longvarchar_, text_>>, <<blob_, bytea_>>, <<integer_, bigint_>>}
StartsWithText(name) == Len(name) >= Len(text_) /\ SubSeq(name, 1, Len(text_)) = text_

\* C27: the translation of a type name is the translation of its
\* lower-cased form; a lower-cased name of the table gives the table's
\* host type, a name that starts with text gives text, and every other
\* name is returned lower-cased and otherwise unchanged.
C27_TranslateIsCaseInsensitiveTable ==
    typ.called =>
        LET lower == str_tolower(typ.typname)
        IN /\ typ.str = sqliteTranslateType(lower)
           /\ \A e \in TranslationTable : lower = e[1] => typ.str = e[2]
           /\ StartsWithText(lower) => typ.str = text_
           /\ ((\A e \in TranslationTable : lower # e[1]) /\ ~StartsWithText(lower))
                  => typ.str = lower
C27_Witness ==
    /\ typ.called
    /\ typ.typname = <<"D", "o", "u", "b", "l", "e">>
    /\ typ.str = double_precision

----------------------------------------------------------------------------
(* Properties of the schema import                                         *)

ImportOptionNames == {imp.stmt.options[i].defname : i \in DOMAIN imp.stmt.options}
\* the last value given for the option defname, or dflt if it is not given
EffectiveOption(defname, dflt) ==
    LET given == {i \in DOMAIN imp.stmt.options : imp.stmt.options[i].defname = defname}
    IN IF given = {} THEN dflt
       ELSE imp.stmt.options[CHOOSE i \in given : \A j \in given : j <= i].arg
\* the caller gave the option defname with a true value
OptedIn(defname) == EffectiveOption(defname, FALSE)

\* C25: an import is rejected with the schema error exactly when its
\* remote schema is neither public nor main, and with the option error
\* when the schema is accepted and an option name is unknown; a rejected
\* import has opened no connection, holds no handle, returns no statement
\* and leaves the handles of the engine as they were.
C25_RejectedImportOpensNothing ==
    /\ [](imp.pc # "none" =>
            LET badSchema == imp.stmt.remote_schema \notin {"public", "main"}
                badOption == ~(ImportOptionNames \subseteq
                                  {"import_default", "import_not_null"})
            IN /\ badSchema => imp.err = "schema"
               /\ (~badSchema /\ badOption) => imp.err = "option"
               /\ (~badSchema /\ ~badOption) => imp.err \notin {"schema", "option"}
               /\ imp.err \in {"schema", "option"} =>
                     /\ imp.pc = "error" /\ ~imp.opened
                     /\ imp.db = NULL /\ imp.tbls = NULL /\ imp.cols = <<>>
                     /\ imp.commands = <<>>)
    /\ [][imp'.err \in {"schema", "option"} =>
            /\ sqlite'.open = sqlite.open
            /\ LiveStmts(sqlite') = LiveStmts(sqlite)]_vars
C25_Witness ==
    /\ imp.pc = "error" /\ imp.err = "option"
    /\ imp.stmt.remote_schema = "main"
    /\ Len(imp.stmt.options) = 2
    /\ sqlite.open # {}

C28_OneStatementPerTableOneClausePerColumn ==
    imp.pc = "returned" =>
        /\ Len(imp.commands) = Len(imp.yielded)
        /\ \A j \in DOMAIN imp.commands :
              LET cmd == imp.commands[j]
                  tbl == imp.yielded[j]
              IN /\ cmd.table = quote_identifier(tbl.name)
                 /\ Len(cmd.columns) = Len(tbl.cols)
                 /\ \A k \in DOMAIN cmd.columns :
                       cmd.columns[k].name = quote_identifier(tbl.cols[k].name)
                 /\ (tbl = items /\ imp.import_not_null /\ ~imp.import_default) =>
                       cmd.columns =
                         <<[name |-> <<"i", "d">>, type |-> bigint_,
                            not_null |-> TRUE, default |-> <<>>],
                           [name |-> <<"n", "a", "m", "e">>, type |-> text_,
                            not_null |-> FALSE, default |-> <<>>],
                           [name |-> <<"p", "r", "i", "c", "e">>, type |-> double_precision,
                            not_null |-> FALSE, default |-> <<>>]>>

\* C29 (as claimed): when an import that opened a connection has left, by
\* return or by an error, the connection is closed and the table statement
\* and every column statement it prepared are finalized.
C29_ImportReleasesEverything ==
    imp.opened =>
        /\ imp.db \notin sqlite.open
        /\ imp.tbls \notin LiveStmts(sqlite)
        /\ \A i \in DOMAIN imp.cols : imp.cols[i] \notin LiveStmts(sqlite)

----------------------------------------------------------------------------
(* Properties of the name allowlists                                       *)

\* C30: for a function that exists, is_shippable_func answers true exactly
\* when the function is in pg_catalog and is named abs or coalesce, and
\* is_shippable_agg answers true exactly when it is in pg_catalog and is
\* named avg, average, max, min or sum; a function of any other schema is
\* rejected by both whatever its name.
C30_AllowlistsNeedBuiltinNamespace ==
    (allow.pc = "returned" /\ allow.fn \in {"is_shippable_func", "is_shippable_agg"}) =>
        LET f == pg_proc[allow.funcid]
            builtin == f.pronamespace = PG_CATALOG_NAMESPACE
            names == IF allow.fn = "is_shippable_func"
                     THEN {"abs", "coalesce"}
                     ELSE {"avg", "average", "max", "min", "sum"}
        IN /\ allow.result <=> (builtin /\ f.proname \in names)
           /\ ~builtin => ~allow.result
C30_Witness ==
    /\ allow.pc = "returned" /\ allow.fn = "is_shippable_agg"
    /\ pg_proc[allow.funcid].proname = "sum"
    /\ pg_proc[allow.funcid].pronamespace # PG_CATALOG_NAMESPACE
    /\ ~allow.result

\* the names of the functions of pg_catalog that fn answers true for
AcceptedNames(fn) ==
    {pg_proc[f].proname :
        f \in {g \in FuncIds : is_allowed_name(g, allowed_names[fn]).result}}

\* C31 (as claimed): the three functions accept three different sets of
\* names: what is_shippable_op accepts differs from what is_shippable_agg
\* accepts and from what is_shippable_func accepts.
C31_ThreeDistinctAllowlists ==
    (allow.pc = "returned" /\ allow.fn = "is_shippable_op") =>
        /\ AcceptedNames("is_shippable_op") # AcceptedNames("is_shippable_agg")
        /\ AcceptedNames("is_shippable_op") # AcceptedNames("is_shippable_func")
        /\ AcceptedNames("is_shippable_agg") # AcceptedNames("is_shippable_func")

----------------------------------------------------------------------------
(* The cache during a lookup                                               *)

\* C32: while the lookup of a miss is running, also when the invalidation
\* callback runs meanwhile, the cache holds no entry for the key being
\* looked up; when the lookup has returned, the entry is there and holds
\* the decision lookup_shippable computed, which is the result of the call,
\* whether or not a flush ran during the lookup.
C32_EntryCreatedAfterLookup ==
    /\ shipCall.pc = "lookup" => ~HashFind(ShippableCacheHash.entries, CallKey)
    /\ shipEv = "lookup_shippable" =>
          /\ HashFind(ShippableCacheHash.entries, CallKey)
          /\ ShippableCacheHash.entries[CallKey] = shipCall.result
          /\ shipCall.result = lookup_shippable(shipCall.objectId, shipCall.classId,
                                                 shipCall.fpinfo)
          /\ shipCall.enters = 1
C32_Witness ==
    /\ shipEv = "lookup_shippable" /\ shipCall.flushedDuring
    /\ HashFind(ShippableCacheHash.entries, CallKey)
    /\ ShippableCacheHash.entries[CallKey] = TRUE

\* C34 (as claimed): no entry is created by a lookup during which the cache
\* was flushed, and every entry of the cache holds the decision that the
\* extension list now configured for the server it was computed for gives.
C34_NoEntryFromBeforeFlush ==
    /\ shipEv = "lookup_shippable" => ~shipCall.flushedDuring
    /\ \A k \in DOMAIN ShippableCacheHash.entries :
          ShippableCacheHash.entries[k] =
              lookup_shippable(k.objid, k.classid, FpInfo(cachedFor[k]))

----------------------------------------------------------------------------
(* Properties of the handles across the scan callbacks                     *)

\* C33 (as claimed): a begin called for an EXPLAIN-only execution leaves a
\* valid node state and does nothing else: it raises no error, holds no
\* connection and no statement, has bound no parameter, and changes no
\* handle of the engine.
C33_ExplainOnlyBeginIsInert ==
    /\ []((scanLog.op = "begin" /\ scanLog.explainOnly) =>
            /\ festate.alloc /\ scanPc = "began"
            /\ festate.db = NULL /\ festate.stmt = NULL
            /\ scanLog.binds = <<>>)
    /\ [][(scanLog'.op = "begin" /\ scanLog.op # "begin" /\ scanLog'.explainOnly) =>
            /\ sqlite'.open = sqlite.open
            /\ LiveStmts(sqlite') = LiveStmts(sqlite)]_vars

\* the engine calls that were handed a connection already closed
UseAfterClose == {"prepare on closed connection", "errmsg of closed connection",
                  "close of closed connection"}

\* C35 (as claimed): on no path of a scan (begin with its prepare and its
\* binds, iterate, rescan, end) is an engine call made on a connection
\* handle that was closed before; a failed prepare reads its message first.
C35_NoCallOnClosedConnection ==
    /\ sqlite.misuse \cap UseAfterClose = {}
    /\ scanLog.err = "prepare" => festate.db \notin sqlite.open

\* C36 (as claimed): when an import has left, by return or by an error, the
\* connection it opened is closed, and it was closed once: no close call
\* was made on the handle after it was closed.
C36_ImportClosesExactlyOnce ==
    (imp.opened /\ imp.pc \in {"returned", "error"}) =>
        /\ imp.db \notin sqlite.open
        /\ "close of closed connection" \notin sqlite.misuse

\* C37 (as claimed): an import never calls sqlite3_close on its connection
\* while a statement prepared on that connection is unfinalized.
C37_FinalizeBeforeClose ==
    [](imp.pc # "none" => "close with unfinalized statement" \notin sqlite.misuse)

\* C38 (as claimed): ending a scan leaves the query text and the list of
\* retrieved attributes held by the plan intact: the text is not freed, and
\* a begin of a later execution of the same plan finds it valid and takes
\* the same list.
C38_EndLeavesPlanDescriptorIntact ==
    /\ scanLog.op = "end" => ~scanLog.queryFreed
    /\ (scanLog.op = "begin" /\ festate.alloc) =>
          /\ scanLog.queryValid
          /\ festate.retrieved_attrs = plan.fdw_private.retrieved_attrs

----------------------------------------------------------------------------
(* Properties of the finished plan                                         *)

\* C39: in the finished plan every clause of the local filtering list,
\* whether sizing classified it local or the final-plan loop saw it first
\* and found it unsafe, references only attributes of the attrs_used set
\* given to the query generator, and the query selects each of them.
C39_LocalFiltersAreFetched ==
    planPc = "planned" =>
        \A c \in Range(plan.local_exprs) :
            /\ ClauseAttrs(c) \subseteq Fpinfo.attrs_used
            /\ ClauseAttrs(c) \subseteq Range(plan.fdw_private.query.columns)
            /\ ClauseAttrs(c) \subseteq Range(plan.fdw_private.retrieved_attrs)

\* a plan with a restriction clause that sizing classified local and whose
\* column is not output, and a join clause found unsafe at final-plan time
C39_Witness ==
    /\ planPc = "planned"
    /\ baserel.reltarget = {1, 3}
    /\ Fpinfo.local_conds = <<"name_in">>
    /\ planIn.planTested = <<"price_gt">>
    /\ planIn.planSafe = {}
    /\ plan.local_exprs = <<"name_in", "price_gt">>
    /\ plan.fdw_private.retrieved_attrs = <<1, 2, 3>>

----------------------------------------------------------------------------
Init ==
    /\ InitShip /\ InitEngine /\ InitPlan /\ InitScan /\ InitModify /\ InitTypes
    /\ InitImport /\ InitAllow

Next ==
    \/ NextShip \/ NextPlan \/ NextScan \/ NextModify \/ NextTypes \/ NextImport
    \/ NextAllow

Spec == Init /\ [][Next]_vars

SpecShip == Init /\ [][NextShip]_vars

SpecPlan == Init /\ [][NextPlan]_vars

SpecScan == Init /\ [][NextScan]_vars

SpecModify == Init /\ [][NextModify]_vars

SpecTypes == Init /\ [][NextTypes]_vars

SpecImport == Init /\ [][NextImport]_vars

SpecAllow == Init /\ [][NextAllow]_vars
====
